---- MODULE Spec2Model ----
(***************************************************************************)
(* A model of triton-kbmapi: the moray convenience wrappers                *)
(* (lib/apis/moray.js), the PIVToken endpoints (lib/endpoints/pivtokens.js)*)
(* and the recovery configuration endpoints.                               *)
(*                                                                         *)
(* Several specifications share the module:                                *)
(*   SpecStore  callers of getObj / putObj / updateObj / delObj            *)
(*   SpecRC     PUT /recovery-configurations/:uuid and the transitions     *)
(*   SpecPiv    DELETE /pivtokens/:guid, POST /pivtokens/:guid/recover     *)
(*   SpecTok    all the routes of /pivtokens                               *)
(*   SpecInit   initBucket and setTestPrefix                               *)
(*   SpecFan    the fan-out of a transition to its targets (SpecFanLive    *)
(*              adds the engine's scheduling)                              *)
(***************************************************************************)
EXTENDS Integers, Sequences, FiniteSets, TLC

\* ------------------------------------------------------------------------
\* Bounds
\* ------------------------------------------------------------------------

\* Number of version tags the store hands out in one behaviour.
MaxTag == 2

\* Number of HTTP requests against the pivtokens routes in one behaviour.
MaxReq == 2

\* Number of HTTP requests against the recovery configuration routes in one
\* behaviour.
MaxRcReq == 2

\* Longest array handed to arrayToVal, and longest string in it.
MaxArr == 2
MaxStr == 2

\* Number of keys of a filter parameter object, and largest limit or offset
\* a caller of listObjs asks for.
MaxKeys == 2
MaxLimit == 2

\* Number of initBucket calls that run concurrently.
MaxCallers == 2

\* Number of createTestServer calls, and of closeServer calls, of a test
\* run.
MaxTestCalls == 2

\* Largest concurrency a PUT /recovery-configurations/:uuid request supplies.
MaxConcurrency == 2

\* ------------------------------------------------------------------------
\* Store access layer: state
\* ------------------------------------------------------------------------

VARIABLES
    objs,       \* the bucket: key -> [present, val, etag]
    nextTag,    \* the next version tag the store will hand out
    wObj,       \* each caller's object: [key, val, etag]
    ev,         \* the last call made and what its callback got: [op, w, err]
    okBy,       \* tag -> number of accepted calls whose caller held it
    koBy,       \* tags held by the caller of a refused call
    clobbered   \* tags replaced by a call that did not present them

storeVars == <<objs, nextTag, wObj, ev, okBy, koBy, clobbered>>

\* ------------------------------------------------------------------------
\* PIVToken endpoints: state
\* ------------------------------------------------------------------------

VARIABLES
    live,       \* the pivtokens bucket: guid -> token or NoToken
    hist,       \* the pivtoken history bucket: token -> number of records
    req         \* the requests: route, parameters, position, response

pivVars == <<live, hist, req>>

\* ------------------------------------------------------------------------
\* Recovery configuration endpoints and transitions: state
\* ------------------------------------------------------------------------

VARIABLES
    cfg,        \* the recovery configuration: [exists, state, etag, tr]
    trs,        \* the transition records, by name
    rcReq       \* the requests: route, parameters, position, response

rcVars == <<cfg, trs, rcReq>>

\* ------------------------------------------------------------------------
\* Fan-out of one transition: state
\* ------------------------------------------------------------------------

VARIABLES
    fan         \* a configuration and its transition: [state, status,
                \* action, supplied, concurrency, outcome]

fanVars == <<fan>>

\* ------------------------------------------------------------------------
\* initBucket: state
\* ------------------------------------------------------------------------

VARIABLES
    BUCKET_PFX,     \* the bucket prefix, '' unless setTestPrefix set one
    bucketCfg,      \* the bucket schema objects: [name, name_prefixed]
    morayBuckets,   \* the store's buckets: name -> NoBucket or
                    \* [schema, options]
    ib              \* the initBucket call: [conf, pc, name, found, issued,
                    \* options, err]

initVars == <<BUCKET_PFX, bucketCfg, morayBuckets, ib>>

\* ------------------------------------------------------------------------
\* arrayToVal / valToArray: state
\* ------------------------------------------------------------------------

VARIABLES
    arrIn,      \* the array a model instance holds
    field,      \* params[key]: absent, a string or an array
    stage       \* what was done to the field last

arrVars == <<arrIn, field, stage>>

\* ------------------------------------------------------------------------
\* listObjs / ldapFilter: state
\* ------------------------------------------------------------------------

VARIABLES
    listIn,     \* opts of the listObjs call: [filter, index, limit, offset]
    listSent,   \* what moray.findObjects was called with: [filter, limit,
                \* offset]
    listPc      \* where the call stands

listVars == <<listIn, listSent, listPc>>

\* ------------------------------------------------------------------------
\* initBucket, concurrent calls: state
\* ------------------------------------------------------------------------

VARIABLES
    calls       \* the initBucket calls in flight, one record as ib each;
                \* they share BUCKET_PFX, bucketCfg and morayBuckets

conVars == <<calls>>

\* ------------------------------------------------------------------------
\* Test server helpers (test/lib/common.js): state
\* ------------------------------------------------------------------------

VARIABLES
    SERVER,     \* the global SERVER: null or the server last created
    servers,    \* the server instances constructed and not stopped
    creates,    \* the createTestServer calls: [pc, res]
    closes      \* the closeServer calls: [pc, target]

testVars == <<SERVER, servers, creates, closes>>

nonStoreVars ==
    <<pivVars, rcVars, fanVars, initVars, arrVars, listVars,
      conVars, testVars>>
nonPivVars ==
    <<storeVars, rcVars, fanVars, initVars, arrVars, listVars,
      conVars, testVars>>
nonRcVars ==
    <<storeVars, pivVars, fanVars, initVars, arrVars, listVars,
      conVars, testVars>>
nonFanVars ==
    <<storeVars, pivVars, rcVars, initVars, arrVars, listVars,
      conVars, testVars>>
nonInitVars ==
    <<storeVars, pivVars, rcVars, fanVars, arrVars, listVars,
      conVars, testVars>>
nonArrVars ==
    <<storeVars, pivVars, rcVars, fanVars, initVars, listVars,
      conVars, testVars>>
nonListVars ==
    <<storeVars, pivVars, rcVars, fanVars, initVars, arrVars,
      conVars, testVars>>
nonTestVars ==
    <<storeVars, pivVars, rcVars, fanVars, initVars, arrVars,
      listVars, conVars>>

Keys == {"k1"}
Writers == {"w1", "w2"}
Fields == {"a", "b"}
Missing == "missing"

\* A stored value: every field holds a value ("x") or is missing.
EmptyValue == [f \in Fields |-> Missing]

\* Version tags.  A caller presents a tag it read, null (the key must not
\* exist) or nothing at all (obj.etag undefined: the put is unconditional).
Tag(n) == [kind |-> "etag", n |-> n]
Undef == [kind |-> "undefined", n |-> 0]
Tags == {Tag(n) : n \in 1..MaxTag}

\* A key the bucket does not hold.
Absent ==
    [present |-> FALSE, val |-> EmptyValue, etag |-> [kind |-> "null", n |-> 0]]

NoError == "none"

\* The message of an error that comes from the store; "desc" is the desc of
\* the bucket schema object.
StoreMsg(err) == IF err = NoError THEN "none" ELSE "store"

NoEvent ==
    [op |-> "none", w |-> "w1", err |-> NoError, msg |-> "none",
     key |-> "k1", etag |-> Undef]

\* ------------------------------------------------------------------------
\* The document store, as the wrappers use it
\* ------------------------------------------------------------------------

\* moray.putObject refuses a write whose etag option is given and is not
\* the tag stored under the key (null standing for "no such key").
EtagConflict(store, k, e) == e # Undef /\ e # store[k].etag

MorayPutObject(store, k, v, n) ==
    [store EXCEPT ![k] = [present |-> TRUE, val |-> v, etag |-> Tag(n)]]

\* ------------------------------------------------------------------------
\* Store access layer: operations
\* ------------------------------------------------------------------------

\* What putObj hands to moray.putObject as the etag option.
PutObjEtagIgnored(obj) == Undef

PutObjEtag(obj) == obj.etag

\* obj.etag after putObj's callback ran: assigned on success only.
PutObjEtagAfterEager(obj, err, resEtag) == resEtag

PutObjEtagAfterKept(obj, err, resEtag) == obj.etag

PutObjEtagAfter(obj, err, resEtag) == IF err THEN obj.etag ELSE resEtag

\* Bookkeeping of a call on key k by a caller that holds tag e (or none).
Account(w, k, e, err) ==
    /\ okBy' = [t \in Tags |->
            IF ~err /\ t = e THEN okBy[t] + 1 ELSE okBy[t]]
    /\ koBy' = IF err /\ e \in Tags THEN koBy \cup {e} ELSE koBy
    /\ clobbered' = IF ~err /\ objs[k].present /\ e # objs[k].etag
                        THEN clobbered \cup {objs[k].etag}
                        ELSE clobbered

\* A caller builds a fresh object for key k (a model instance that was
\* never read from the store): its etag is undefined or null.
NewObj(w) ==
    \E k \in Keys, e \in {Undef, Absent.etag} :
        /\ wObj' = [wObj EXCEPT ![w] = [key |-> k, val |-> EmptyValue, etag |-> e]]
        /\ ev' = [NoEvent EXCEPT !.op = "new", !.w = w, !.key = k]
        /\ UNCHANGED <<objs, nextTag, okBy, koBy, clobbered, nonStoreVars>>

\* The callbacks of moray.getObject and moray.delObject: an
\* ObjectNotFoundError becomes a ResourceNotFoundError whose message names
\* bucket.desc, anything else is handed on as it came.
NotFoundCbRaw(err) == [err |-> err, msg |-> StoreMsg(err)]

NotFoundCb(err) ==
    IF err = "ObjectNotFoundError"
        THEN [err |-> "ResourceNotFoundError", msg |-> "desc"]
    ELSE [err |-> err, msg |-> StoreMsg(err)]

\* getObj(moray, bucket, key, callback), with a store that may fail (fault)
\* for a reason of its own.
GetObjCall(w, faults) ==
    \E k \in Keys, fault \in faults :
        LET err == IF fault THEN "InternalError"
                   ELSE IF objs[k].present THEN NoError
                   ELSE "ObjectNotFoundError"
            cb == NotFoundCb(err)
        IN  /\ ev' = [NoEvent EXCEPT !.op = "getObj", !.w = w, !.key = k,
                            !.err = cb.err, !.msg = cb.msg]
            /\ wObj' = IF cb.err = NoError
                          THEN [wObj EXCEPT ![w] =
                            [key |-> k, val |-> objs[k].val,
                             etag |-> objs[k].etag]]
                          ELSE wObj
            /\ UNCHANGED <<objs, nextTag, okBy, koBy, clobbered, nonStoreVars>>

GetObj(w) == GetObjCall(w, {FALSE})

GetObjFault(w) == GetObjCall(w, {TRUE})

\* putObj(moray, bucket, obj, callback): obj.raw() is written under
\* obj.key() with obj.etag; obj.etag is updated from the store's answer.
PutObj(w) ==
    \E v \in [Fields -> {"x", Missing}] :
        LET obj == [wObj[w] EXCEPT !.val = v]
            k == obj.key
            e == obj.etag
            err == EtagConflict(objs, k, PutObjEtag(obj))
        IN  /\ (err \/ nextTag <= MaxTag)
            /\ ev' = [NoEvent EXCEPT !.op = "putObj", !.w = w, !.key = k,
                        !.err = IF err THEN "EtagConflictError" ELSE NoError,
                        !.msg = IF err THEN "store" ELSE "none"]
            /\ objs' = IF err THEN objs ELSE MorayPutObject(objs, k, v, nextTag)
            /\ nextTag' = IF err THEN nextTag ELSE nextTag + 1
            /\ wObj' = [wObj EXCEPT ![w] =
                    [obj EXCEPT !.etag = PutObjEtagAfter(obj, err, Tag(nextTag))]]
            /\ Account(w, k, e, err)
            /\ UNCHANGED nonStoreVars

\* updateObj(opts, callback): opts.etag is asserted to be a string, so a
\* caller can only update what it has read.
UpdateObj(w) ==
    \E fs \in SUBSET Fields, d \in {"x"}, remove \in BOOLEAN :
        LET val == [f \in fs |-> d]
            k == wObj[w].key
            e == wObj[w].etag
            \* a deep copy of opts.original with the keys of opts.val set,
            \* or removed when opts.remove is given
            value == [f \in Fields |->
                        IF f \in DOMAIN val
                            THEN (IF remove THEN Missing ELSE val[f])
                            ELSE wObj[w].val[f]]
            err == EtagConflict(objs, k, e)
        IN  /\ e \in Tags
            /\ (err \/ nextTag <= MaxTag)
            /\ ev' = [NoEvent EXCEPT !.op = "updateObj", !.w = w, !.key = k,
                        !.err = IF err THEN "EtagConflictError" ELSE NoError,
                        !.msg = IF err THEN "store" ELSE "none"]
            /\ objs' = IF err THEN objs
                              ELSE MorayPutObject(objs, k, value, nextTag)
            /\ nextTag' = IF err THEN nextTag ELSE nextTag + 1
            /\ wObj' = IF err THEN wObj
                              ELSE [wObj EXCEPT ![w] =
                                [key |-> k, val |-> value, etag |-> Tag(nextTag)]]
            /\ Account(w, k, e, err)
            /\ UNCHANGED nonStoreVars

\* delObj(opts, callback): the etag is optional; an absent key is reported
\* as ResourceNotFoundError.
DelObjCall(w, faults) ==
    \E k \in Keys, withEtag \in BOOLEAN, fault \in faults :
        LET e == IF withEtag /\ wObj[w].etag \in Tags /\ wObj[w].key = k
                    THEN wObj[w].etag ELSE Undef
            notFound == ~objs[k].present
            conflict == ~notFound /\ EtagConflict(objs, k, e)
            err == notFound \/ conflict
            cb == NotFoundCb(IF fault THEN "InternalError"
                             ELSE IF notFound THEN "ObjectNotFoundError"
                             ELSE IF conflict THEN "EtagConflictError"
                             ELSE NoError)
        IN  /\ ev' = [NoEvent EXCEPT !.op = "delObj", !.w = w, !.key = k,
                            !.etag = e, !.err = cb.err, !.msg = cb.msg]
            /\ objs' = IF fault \/ err THEN objs
                       ELSE [objs EXCEPT ![k] = Absent]
            /\ IF fault THEN UNCHANGED <<okBy, koBy, clobbered>>
                        ELSE Account(w, k, e, err)
            /\ UNCHANGED <<nextTag, wObj, nonStoreVars>>

\* _onListRec of listObjs, with opts.model: rec.value.etag = rec._etag, and
\* the model is constructed from rec.value; the instance keeps the etag it
\* is given.
OnListRec(k, rec) == [key |-> k, val |-> rec.val, etag |-> rec.etag]

\* listObjs(opts, callback) with opts.model and no filter: the callback
\* gets an instance for every record of the bucket, or the error of the
\* request; the caller goes on with one of the instances.
ListRecords(w) ==
    \E fault \in BOOLEAN :
        LET results == {OnListRec(k, objs[k]) :
                            k \in {x \in Keys : objs[x].present}}
            got == ~fault /\ results # {}
        IN  /\ \E o \in IF got THEN results ELSE {wObj[w]} :
                /\ wObj' = [wObj EXCEPT ![w] = o]
                /\ ev' = [NoEvent EXCEPT !.op = "listObjs", !.w = w,
                            !.key = o.key,
                            !.err = IF fault THEN "InternalError" ELSE NoError,
                            !.msg = StoreMsg(IF fault THEN "InternalError"
                                             ELSE NoError)]
            /\ UNCHANGED <<objs, nextTag, okBy, koBy, clobbered, nonStoreVars>>

DelObj(w) == DelObjCall(w, {FALSE})

DelObjFault(w) == DelObjCall(w, {TRUE})

\* ------------------------------------------------------------------------
\* PIVToken endpoints
\* ------------------------------------------------------------------------

Guids == {"G1", "G2"}
Tokens == [guid : Guids, cn_uuid : {"cn1", "cn2"}]
NoToken == [guid |-> "none", cn_uuid |-> "none"]
Reqs == 1..MaxReq

\* What a response shows of a token: its public fields, and its PIN or
\* nothing in its place.  token.serialize() redacts the secrets of a token
\* read with get, list or create; a token read with getPin carries its PIN.
Redacted == <<"redacted">>
SerializePublic(t) == [token |-> t, pin |-> Redacted]
SerializePin(t) == [token |-> t, pin |-> <<"pin", t.guid, t.cn_uuid>>]

\* A request: its route and parameters, where it stands, the token
\* preloadPivtoken left in req.rawToken, whether it passed the verification
\* of its signature against that token, the response and its body, and what
\* the request has done to the two buckets so far: whether it wrote its
\* history record, whether it removed a live record, whether it stored a
\* token, which of its steps failed.
IdleReq ==
    [route |-> "none", guid |-> "none", token |-> NoToken, pc |-> "idle",
     rawToken |-> NoToken, authed |-> FALSE, resp |-> "none", body |-> {},
     archived |-> FALSE, removed |-> FALSE, stored |-> FALSE,
     failed |-> "none"]

Answer(q, resp) == [q EXCEPT !.pc = "done", !.resp = resp]

\* A client sends DELETE /pivtokens/:guid or POST /pivtokens/:guid/recover
\* (the latter with the replacement token in its body); the route's first
\* handler, preloadPivtoken, issues mod_pivtoken.getPin.  Requests are
\* numbered in the order of their arrival.
StartRequest(r) ==
    /\ req[r].pc = "idle"
    /\ \A o \in Reqs : o < r => req[o].pc # "idle"
    /\ \E route \in {"deltoken", "recoverytoken"}, g \in Guids, t \in Tokens :
        /\ route = "deltoken" => t.guid = g /\ t.cn_uuid = "cn1"
        /\ req' = [req EXCEPT ![r] =
                [IdleReq EXCEPT !.route = route, !.guid = g,
                    !.token = IF route = "recoverytoken" THEN t ELSE NoToken,
                    !.pc = "preload"]]
    /\ UNCHANGED <<live, hist, nonPivVars>>

\* getPivtokenCb of preloadPivtoken: a 404 is passed over, another error
\* ends the request, a token found is kept in req.rawToken.
PreloadPivtoken(q, err, found) ==
    IF err = "none"
        THEN [q EXCEPT !.pc = "auth", !.rawToken = found]
    ELSE IF err = "ResourceNotFoundError"
        THEN [q EXCEPT !.pc = "auth"]
    ELSE Answer(q, err)

\* mod_auth.signatureAuth: a request for which no token was loaded passes
\* on to its handler; otherwise the signature is verified against the
\* token's key, and a request whose signature does not verify is refused
\* the way a request for an unknown guid is.
SignatureAuthDistinct(q, valid) ==
    IF q.pc # "auth" THEN q
    ELSE IF q.rawToken = NoToken THEN [q EXCEPT !.pc = "handler"]
    ELSE IF valid THEN [q EXCEPT !.pc = "handler", !.authed = TRUE]
    ELSE [Answer(q, "InvalidCredentialsError") EXCEPT !.failed = "auth"]

SignatureAuth(q, valid) ==
    IF q.pc # "auth" THEN q
    ELSE IF q.rawToken = NoToken THEN [q EXCEPT !.pc = "handler"]
    ELSE IF valid THEN [q EXCEPT !.pc = "handler", !.authed = TRUE]
    ELSE [Answer(q, "ResourceNotFoundError") EXCEPT !.failed = "auth"]

\* The routes that have mod_auth.signatureAuth in their chain.
AuthenticatedRoutesNoPin == {"createtoken", "deltoken", "recoverytoken"}

AuthenticatedRoutes ==
    {"createtoken", "deltoken", "gettokenpin", "recoverytoken"}

RouteAuth(q, valid) ==
    IF q.route \in AuthenticatedRoutes THEN SignatureAuth(q, valid)
    ELSE IF q.pc = "auth" THEN [q EXCEPT !.pc = "handler"]
    ELSE q

\* getPivtokenPin: 404 without a loaded token, else the token as getPin
\* serialized it.
GetPivtokenPin(q) ==
    IF q.rawToken = NoToken THEN Answer(q, "ResourceNotFoundError")
    ELSE [Answer(q, "200") EXCEPT !.body = {SerializePin(q.rawToken)}]

\* createPivtoken: a token loaded for the guid is sent back as it was
\* loaded; otherwise mod_pivtoken.create is called.
CreatePivtokenHandlerAlwaysCreate(q) == [q EXCEPT !.pc = "create"]

CreatePivtokenHandler(q) ==
    IF q.rawToken # NoToken
        THEN [Answer(q, "200") EXCEPT !.body = {SerializePin(q.rawToken)}]
    ELSE [q EXCEPT !.pc = "create"]

\* deletePivtoken / recoveryPivtoken: 404 without a loaded token, else
\* archiveAndDeletePivtoken is called and issues the history create.
ArchiveHandlerUnchecked(q) == [q EXCEPT !.pc = "archive"]

ArchiveHandler(q) ==
    IF q.rawToken = NoToken THEN Answer(q, "ResourceNotFoundError")
    ELSE [q EXCEPT !.pc = "archive"]

\* The last handler of the route's chain.
PivtokenHandler(q) ==
    IF q.pc # "handler" THEN q
    ELSE IF q.route = "gettokenpin" THEN GetPivtokenPin(q)
    ELSE IF q.route = "createtoken" THEN CreatePivtokenHandler(q)
    ELSE ArchiveHandler(q)

\* The answer of mod_pivtoken.getPin arrives and the route's handlers run
\* up to the next store call.
Preload(r) ==
    /\ req[r].pc = "preload"
    /\ \E fault \in BOOLEAN, valid \in BOOLEAN :
        LET found == live[req[r].guid]
            err == IF fault THEN "InternalError"
                   ELSE IF found = NoToken THEN "ResourceNotFoundError"
                   ELSE "none"
        IN  req' = [req EXCEPT ![r] =
                PivtokenHandler(RouteAuth(
                    PreloadPivtoken(req[r], err, found), valid))]
    /\ UNCHANGED <<live, hist, nonPivVars>>

\* createTkHistoryCb: with an error the callback is called and nothing
\* else happens; otherwise the delete is issued.
CreateTkHistoryCbIgnoreErr(historyErr) == "del"

CreateTkHistoryCb(historyErr) == IF historyErr THEN "done" ELSE "del"

\* mod_pivtoken_history.create: a history record of the token is added;
\* records already there for the guid are no obstacle.
HistoryCreateRefuseDuplicate(h, token) ==
    LET dup == \E t \in Tokens : t.guid = token.guid /\ h[t] > 0
    IN  [err |-> IF dup THEN "DuplicateError" ELSE "none",
         hist |-> IF dup THEN h ELSE [h EXCEPT ![token] = 1]]

HistoryCreate(h, token) ==
    [err |-> "none", hist |-> [h EXCEPT ![token] = @ + 1]]

\* archiveAndDeletePivtoken, first half: the history create and its
\* callback.
ArchivePivtoken(r) ==
    /\ req[r].pc = "archive"
    /\ \E fault \in BOOLEAN :
        LET res == HistoryCreate(hist, req[r].rawToken)
            historyErr == IF fault THEN "HistoryError" ELSE res.err
            pc == CreateTkHistoryCb(historyErr # "none")
        IN  /\ hist' = IF historyErr # "none" THEN hist ELSE res.hist
            /\ req' = [req EXCEPT
                    ![r].pc = pc,
                    ![r].resp = IF pc = "done" THEN historyErr ELSE "none",
                    ![r].archived = (historyErr = "none"),
                    ![r].failed = IF historyErr = "none" THEN "none" ELSE "history"]
    /\ UNCHANGED <<live, nonPivVars>>

\* delPivtokenCb, as the route's handler sees it: the response of a delete
\* request, or the next step of a recover request.
DelCbSwallowErr(route, err) ==
    IF route = "deltoken" THEN [pc |-> "done", resp |-> "204"]
    ELSE [pc |-> "create", resp |-> "none"]

DelCb(route, err) ==
    IF err # "none" THEN [pc |-> "done", resp |-> err]
    ELSE IF route = "deltoken" THEN [pc |-> "done", resp |-> "204"]
    ELSE [pc |-> "create", resp |-> "none"]

\* archiveAndDeletePivtoken, second half: mod_pivtoken.del removes the
\* record stored under the token's guid.
DelPivtoken(r) ==
    /\ req[r].pc = "del"
    /\ \E fault \in BOOLEAN :
        LET g == req[r].rawToken.guid
            err == IF fault THEN "DelError"
                   ELSE IF live[g] = NoToken THEN "ResourceNotFoundError"
                   ELSE "none"
            cb == DelCb(req[r].route, err)
        IN  /\ live' = IF err = "none" THEN [live EXCEPT ![g] = NoToken] ELSE live
            /\ req' = [req EXCEPT
                    ![r].pc = cb.pc,
                    ![r].resp = cb.resp,
                    ![r].removed = (err = "none"),
                    ![r].failed = IF err = "none" THEN "none" ELSE "del"]
    /\ UNCHANGED <<hist, nonPivVars>>

\* mod_pivtoken.create: a token already stored under the guid is returned
\* as it is; a token for a compute node that has a token already is
\* refused; otherwise the token is stored.
ModCreateNoUnique(l, t) ==
    IF l[t.guid] # NoToken
        THEN [err |-> "none", live |-> l, token |-> l[t.guid], stored |-> FALSE]
    ELSE [err |-> "none", live |-> [l EXCEPT ![t.guid] = t], token |-> t,
          stored |-> TRUE]

ModCreate(l, t) ==
    IF l[t.guid] # NoToken
        THEN [err |-> "none", live |-> l, token |-> l[t.guid], stored |-> FALSE]
    ELSE IF \E g \in Guids : l[g] # NoToken /\ l[g].cn_uuid = t.cn_uuid
        THEN [err |-> "UniqueAttributeError", live |-> l, token |-> NoToken,
              stored |-> FALSE]
    ELSE [err |-> "none", live |-> [l EXCEPT ![t.guid] = t], token |-> t,
          stored |-> TRUE]

\* The callback of mod_pivtoken.create in createPivtoken and in
\* recoveryPivtoken: the error is passed to next, otherwise 201 is sent.
CreateCbSwallowErr(err) == "201"

CreateCb(err) == IF err = "none" THEN "201" ELSE err

\* mod_pivtoken.create and its callback: the error, or 201 with the token
\* serialized.  Nothing the request did before is undone.
CreatePivtoken(r) ==
    /\ req[r].pc = "create"
    /\ \E fault \in BOOLEAN :
        LET res == ModCreate(live, req[r].token)
            err == IF fault THEN "CreateError" ELSE res.err
        IN  /\ live' = IF err = "none" THEN res.live ELSE live
            /\ req' = [req EXCEPT ![r] =
                    [Answer(req[r], CreateCb(err))
                        EXCEPT !.failed = IF err = "none" THEN "none" ELSE "create",
                               !.stored = (err = "none" /\ res.stored),
                               !.body = IF err = "none"
                                            THEN {SerializePublic(res.token)}
                                            ELSE {}]]
    /\ UNCHANGED <<hist, nonPivVars>>

\* The server process dies while the request waits for the store: the
\* request object is lost, what the request did to the buckets stays.
Crash(r) ==
    /\ req[r].pc \in {"preload", "archive", "del", "create"}
    /\ req' = [req EXCEPT ![r] =
            [IdleReq EXCEPT !.pc = "crashed", !.guid = req[r].guid,
                !.archived = req[r].archived, !.removed = req[r].removed,
                !.stored = req[r].stored, !.failed = req[r].failed]]
    /\ UNCHANGED <<live, hist, nonPivVars>>

InitPivIdle ==
    /\ live = [g \in Guids |-> NoToken]
    /\ hist = [t \in Tokens |-> 0]
    /\ req = [r \in Reqs |-> IdleReq]

\* The compute node a token was enrolled on before the server started.
EnrolledOn(g) == IF g = "G1" THEN "cn1" ELSE "cn2"

\* A client sends a request to one of the four routes that start with
\* preloadPivtoken; POST /pivtokens carries the token to create, whose guid
\* is the one preloaded.
StartTokRequest(r) ==
    /\ req[r].pc = "idle"
    /\ \A o \in Reqs : o < r => req[o].pc # "idle"
    /\ \E route \in {"createtoken", "deltoken", "gettokenpin",
                      "recoverytoken"}, g \in Guids, t \in Tokens :
        /\ route \in {"deltoken", "gettokenpin"} =>
                t.guid = g /\ t.cn_uuid = "cn1"
        /\ route = "createtoken" => t.guid = g
        /\ req' = [req EXCEPT ![r] =
                [IdleReq EXCEPT !.route = route, !.guid = g,
                    !.token = IF route \in {"recoverytoken", "createtoken"}
                                THEN t ELSE NoToken,
                    !.pc = "preload"]]
    /\ UNCHANGED <<live, hist, nonPivVars>>

\* listPivtokens: GET /pivtokens and the answer of mod_pivtoken.list.
ListPivtokens(r) ==
    /\ req[r].pc = "idle"
    /\ \A o \in Reqs : o < r => req[o].pc # "idle"
    /\ \E fault \in BOOLEAN :
        req' = [req EXCEPT ![r] =
            IF fault
                THEN Answer([IdleReq EXCEPT !.route = "listtokens"],
                        "InternalError")
            ELSE [Answer([IdleReq EXCEPT !.route = "listtokens"], "200")
                    EXCEPT !.body = {SerializePublic(live[g]) :
                                g \in {h \in Guids : live[h] # NoToken}}]]
    /\ UNCHANGED <<live, hist, nonPivVars>>

\* getPivtoken: GET /pivtokens/:guid and the answer of mod_pivtoken.get.
GetPivtoken(r) ==
    /\ req[r].pc = "idle"
    /\ \A o \in Reqs : o < r => req[o].pc # "idle"
    /\ \E g \in Guids, fault \in BOOLEAN :
        LET q == [IdleReq EXCEPT !.route = "gettoken", !.guid = g]
        IN  req' = [req EXCEPT ![r] =
                IF fault THEN Answer(q, "InternalError")
                ELSE IF live[g] = NoToken
                    THEN Answer(q, "ResourceNotFoundError")
                ELSE [Answer(q, "200")
                        EXCEPT !.body = {SerializePublic(live[g])}]]
    /\ UNCHANGED <<live, hist, nonPivVars>>

NextTok ==
    \E r \in Reqs :
        \/ StartTokRequest(r)
        \/ ListPivtokens(r)
        \/ GetPivtoken(r)
        \/ Preload(r)
        \/ ArchivePivtoken(r)
        \/ DelPivtoken(r)
        \/ CreatePivtoken(r)

NextPiv ==
    \E r \in Reqs :
        \/ StartRequest(r)
        \/ Preload(r)
        \/ ArchivePivtoken(r)
        \/ DelPivtoken(r)
        \/ CreatePivtoken(r)
        \/ Crash(r)

\* ------------------------------------------------------------------------
\* Recovery configuration endpoints
\* ------------------------------------------------------------------------

RcReqs == 1..MaxRcReq
TrNames == 1..MaxRcReq
Targets == {"cn1", "cn2"}

\* The state an action leads to.
TargetState(action) ==
    CASE action = "activate" -> "active"
      [] action = "expire" -> "expired"
      [] action = "deactivate" -> "deactivated"
      [] OTHER -> "none"

\* The table of legal transitions.
LegalTransitionLoose(state, action) == state # "staged" \/ action = "activate"

LegalTransition(state, action) ==
    \/ state = "staged" /\ action = "activate"
    \/ state = "active" /\ action \in {"expire", "deactivate"}
    \/ state = "expired" /\ action = "deactivate"

\* The validation of step 1: force does not make an illegal action legal.
ValidateUnlessForced(state, action, force) ==
    force \/ LegalTransition(state, action)

Validate(state, action, force) == LegalTransition(state, action)

NoCfg ==
    [exists |-> FALSE, deleted |-> FALSE, state |-> "none", etag |-> 0,
     tr |-> 0]

NoTr ==
    [status |-> "none", action |-> "none", from |-> "none", by |-> 0,
     forced |-> FALSE, reqForce |-> FALSE,
     outcome |-> [t \in Targets |-> "pending"],
     order |-> <<>>, allOk |-> TRUE, failed |-> {}, result |-> "none"]

\* What the transition engine hands to trCb as trRes: nothing, or a result,
\* with the name of a transition record or without (name 0).
NoResult == [given |-> FALSE, name |-> 0]

\* A request: its route and parameters, the properties and values of
\* trParams, req.params.targets, where it stands, what the engine called
\* trCb with and the response (status or error, body, and the transition
\* named by the Location header).
IdleRcReq ==
    [route |-> "none", action |-> "none", force |-> FALSE,
     pivtoken |-> "none", cn_uuid |-> "none", concurrency |-> 0,
     trKeys |-> {}, trForce |-> FALSE, trPivtoken |-> "none",
     trConcurrency |-> 0, reqTargets |-> {},
     pc |-> "idle", found |-> FALSE, seen |-> 0,
     trErr |-> "none", trRes |-> NoResult,
     resp |-> "none", body |-> "none", tr |-> 0]

\* An answered request keeps what the response shows.  The body is an
\* object with 200 and 201, the error with an error, none otherwise.
RcAnswer(q, resp) ==
    [IdleRcReq EXCEPT !.route = q.route, !.action = q.action,
        !.force = q.force, !.pc = "done", !.resp = resp,
        !.body = IF resp \in {"200", "201"} THEN "object"
                 ELSE IF resp \in {"204", "next"} THEN "none"
                 ELSE "error"]

\* A record that is no longer in flight keeps its verdict, not the reports
\* that led to it.
Finished(rec, status, state) ==
    [NoTr EXCEPT !.status = status, !.action = rec.action, !.from = rec.from,
        !.by = rec.by, !.forced = rec.forced,
        !.reqForce = rec.reqForce, !.failed = rec.failed,
        !.result = state]

InFlight(n) == n \in TrNames /\ trs[n].status = "inflight"

\* updateRecoveryConfiguration up to the call of the transition engine:
\* trParams.force is set when req.params.force is.
TrParamsForceAlways(q) == TRUE

TrParamsForce(q) == q.force

\* The call of the transition engine, with trParams and the properties it
\* was given; cn_uuid goes to req.params.targets.
CallTransition(q) ==
    [q EXCEPT !.pc = "engine",
        !.trKeys =
            {"uuid"} \cup (IF TrParamsForce(q) THEN {"force"} ELSE {})
                \cup (IF q.pivtoken # "none" THEN {"pivtoken"} ELSE {})
                \cup (IF q.concurrency # 0 THEN {"concurrency"} ELSE {}),
        !.trForce = TrParamsForce(q),
        !.trPivtoken = q.pivtoken,
        !.trConcurrency = q.concurrency,
        !.reqTargets = IF q.cn_uuid # "none" THEN {q.cn_uuid} ELSE {}]

UpdateRecoveryConfigurationNoAction(q) ==
    IF ~q.found THEN RcAnswer(q, "ResourceNotFoundError")
    ELSE CallTransition(q)

UpdateRecoveryConfiguration(q) ==
    IF ~q.found THEN RcAnswer(q, "ResourceNotFoundError")
    ELSE IF q.action = "none" THEN RcAnswer(q, "MissingParameterError")
    ELSE CallTransition(q)

\* res.send(trErr ? 200 : 204)
SendStatusNoContent(trErr) == "204"

SendStatus(trErr) == IF trErr # "none" THEN "200" ELSE "204"

\* trCb, the callback of the transition engine: an error without a result
\* is passed on; otherwise the answer is 200 with an error and 204 without,
\* in both cases without a body, and with the Location of the transition
\* record when the result names one.  Without an error and without a
\* result, reading trRes.transition throws.
TrCb(q, trErr, trRes) ==
    IF trErr # "none" /\ ~trRes.given
        THEN [RcAnswer(q, trErr) EXCEPT !.trErr = trErr]
    ELSE IF ~trRes.given THEN RcAnswer(q, "TypeError")
    ELSE [IdleRcReq EXCEPT !.route = q.route, !.pc = "done",
            !.trErr = trErr, !.trRes = trRes,
            !.resp = SendStatus(trErr), !.body = "none",
            !.tr = trRes.name]

\* getRecoveryConfiguration
GetRecoveryConfiguration(q) ==
    IF ~q.found THEN RcAnswer(q, "ResourceNotFoundError")
    ELSE RcAnswer(q, "200")

\* watchRecoveryConfiguration: 404, or on to the next handler.
WatchRecoveryConfiguration(q) ==
    IF ~q.found THEN RcAnswer(q, "ResourceNotFoundError")
    ELSE RcAnswer(q, "next")

\* listRecoveryConfigurations: the route has no preload.
ListRecoveryConfigurations(q, err) ==
    RcAnswer(q, IF err THEN "InternalError" ELSE "200")

\* deleteRecoveryConfiguration up to the call of
\* mod_recovery_configuration.del.
DeleteRecoveryConfiguration(q) ==
    IF ~q.found THEN RcAnswer(q, "ResourceNotFoundError")
    ELSE [q EXCEPT !.pc = "delcfg"]

\* preloadRecoveryConfiguration: the configuration named by the request, if
\* it exists, becomes req.recoveryConfig; an error other than 404 ends the
\* request.
PreloadRecoveryConfiguration(q, exists, err) ==
    IF err THEN RcAnswer(q, "InternalError")
    ELSE [q EXCEPT !.found = exists]

\* The handler of a route, after the preload.
RcHandler(q) ==
    CASE q.pc = "done" -> q
      [] q.route = "putrecoveryconfiguration" -> UpdateRecoveryConfiguration(q)
      [] q.route = "getrecoveryconfiguration" -> GetRecoveryConfiguration(q)
      [] q.route = "delrecoveryconfiguration" -> DeleteRecoveryConfiguration(q)
      [] OTHER -> WatchRecoveryConfiguration(q)

\* A client sends a request to one of the routes under
\* /recovery-configurations: the preload reads the configuration and the
\* route's handler runs up to its next store call.  Requests are numbered in
\* the order of their arrival.
RcArrive(q, pivtokens, cn_uuids, concurrencies) ==
    /\ rcReq[q].pc = "idle"
    /\ \A o \in RcReqs : o < q => rcReq[o].pc # "idle"
    /\ \E route \in {"createrecoveryconfiguration",
                      "getrecoveryconfiguration", "listrecoveryconfigs",
                      "putrecoveryconfiguration", "delrecoveryconfiguration",
                      "watchrecoveryconfiguration"},
          action \in {"activate", "expire", "deactivate"} \cup {"none"},
          force \in BOOLEAN, err \in BOOLEAN, pivtoken \in pivtokens,
          cn_uuid \in cn_uuids, concurrency \in concurrencies :
        /\ route # "putrecoveryconfiguration" =>
                /\ action = "none" /\ ~force
                /\ pivtoken = "none" /\ cn_uuid = "none" /\ concurrency = 0
        /\ route = "createrecoveryconfiguration" => ~err
        /\ LET arrived == [IdleRcReq EXCEPT !.route = route,
                                !.action = action, !.force = force,
                                !.pivtoken = pivtoken, !.cn_uuid = cn_uuid,
                                !.concurrency = concurrency]
           IN  rcReq' = [rcReq EXCEPT ![q] =
                    CASE route = "listrecoveryconfigs" ->
                            ListRecoveryConfigurations(arrived, err)
                      [] route = "createrecoveryconfiguration" ->
                            [arrived EXCEPT !.pc = "createcfg"]
                      [] OTHER ->
                            RcHandler(PreloadRecoveryConfiguration(
                                arrived, cfg.exists, err))]
    /\ UNCHANGED <<cfg, trs, nonRcVars>>

\* The requests of the transitions followed target by target name neither a
\* PIVToken nor a compute node nor a concurrency.
RcRequest(q) == RcArrive(q, {"none"}, {"none"}, {0})

\* The requests of a client that waits for the end of one request before it
\* sends the next, with every parameter a PUT can have.
EpRequest(q) ==
    /\ \A o \in RcReqs : rcReq[o].pc \in {"idle", "done"}
    /\ RcArrive(q, {"G1", "none"}, {"cn1", "none"},
                {0, MaxConcurrency})

\* The transition engine calls trCb: without an error and with the
\* transition it created, or with an error, and then without a result, with
\* a result that names no transition or with one that names a transition.
TransitionCb(q) ==
    /\ rcReq[q].pc = "engine"
    /\ \E trErr \in {"none", "InvalidTransition", "ConflictError"},
          trRes \in {NoResult} \cup
                    {[given |-> TRUE, name |-> n] : n \in {0} \cup TrNames} :
        /\ trErr = "none" => trRes.given /\ trRes.name # 0
        /\ rcReq' = [rcReq EXCEPT ![q] = TrCb(rcReq[q], trErr, trRes)]
    /\ UNCHANGED <<cfg, trs, nonRcVars>>

\* createRecoveryConfiguration: only the template of the request reaches
\* mod_recovery_configuration.create, which stores a staged configuration.
\* A configuration created beside the one followed here is another
\* configuration, with its own state and transitions.
CreateRecoveryConfiguration(q) ==
    /\ rcReq[q].pc = "createcfg"
    /\ \E err \in BOOLEAN :
        /\ cfg' = IF err \/ cfg.exists \/ cfg.deleted THEN cfg
                  ELSE [NoCfg EXCEPT !.exists = TRUE, !.state = "staged",
                            !.etag = 1]
        /\ rcReq' = [rcReq EXCEPT ![q] =
                RcAnswer(rcReq[q], IF err THEN "InternalError" ELSE "201")]
    /\ UNCHANGED <<trs, nonRcVars>>

\* mod_recovery_configuration.del and its callback.
DelRecoveryConfiguration(q) ==
    /\ rcReq[q].pc = "delcfg"
    /\ \E err \in BOOLEAN :
        LET gone == ~cfg.exists
        IN  /\ cfg' = IF err \/ gone THEN cfg
                      ELSE [cfg EXCEPT !.exists = FALSE, !.deleted = TRUE,
                                !.etag = @ + 1]
            /\ rcReq' = [rcReq EXCEPT ![q] =
                    RcAnswer(rcReq[q],
                        IF err THEN "InternalError"
                        ELSE IF gone THEN "ResourceNotFoundError"
                        ELSE "204")]
    /\ UNCHANGED <<trs, nonRcVars>>

\* Transition engine, step 1: the configuration is read and the action is
\* validated against its state; a transition found in flight is a
\* conflict unless the request forces its way.
EngineValidate(q) ==
    /\ rcReq[q].pc = "engine"
    /\ rcReq' = [rcReq EXCEPT ![q] =
            IF ~cfg.exists
                THEN TrCb(rcReq[q], "ResourceNotFoundError", NoResult)
            ELSE IF ~Validate(cfg.state, rcReq[q].action, rcReq[q].trForce)
                THEN TrCb(rcReq[q], "InvalidTransition", NoResult)
            ELSE IF InFlight(cfg.tr) /\ ~rcReq[q].trForce
                THEN TrCb(rcReq[q], "ConflictError", NoResult)
            ELSE [rcReq[q] EXCEPT !.pc = "create", !.seen = cfg.etag]]
    /\ UNCHANGED <<cfg, trs, nonRcVars>>

\* Transition engine, step 2: the transition record is created with the
\* version tag read at step 1.  A version conflict is a ConflictError,
\* unless the request forces: then the engine starts over from step 1, and
\* the transition it finds in flight is superseded by the record it creates.
\* The record is named after the number of records there are.  trCb answers
\* the request.
EngineCreate(q) ==
    /\ rcReq[q].pc = "create"
    /\ LET conflict == cfg.etag # rcReq[q].seen
           n == 1 + Cardinality({m \in TrNames : trs[m].status # "none"})
       IN  IF conflict
            THEN /\ rcReq' = [rcReq EXCEPT ![q] =
                        IF rcReq[q].trForce
                            THEN [rcReq[q] EXCEPT !.pc = "engine", !.seen = 0]
                        ELSE [TrCb(rcReq[q], "ConflictError", NoResult)
                                EXCEPT !.seen = rcReq[q].seen]]
                 /\ UNCHANGED <<cfg, trs>>
            ELSE /\ trs' = [m \in TrNames |->
                        IF m = n
                            THEN [NoTr EXCEPT !.status = "inflight",
                                    !.action = rcReq[q].action,
                                    !.from = cfg.state, !.by = q,
                                    !.forced = rcReq[q].trForce,
                                    !.reqForce = rcReq[q].force]
                        ELSE IF m = cfg.tr /\ InFlight(m)
                            THEN Finished(trs[m], "superseded", cfg.state)
                        ELSE trs[m]]
                 /\ cfg' = [cfg EXCEPT !.tr = n, !.etag = @ + 1]
                 /\ rcReq' = [rcReq EXCEPT ![q] =
                        TrCb(rcReq[q], "none", [given |-> TRUE, name |-> n])]
    /\ UNCHANGED nonRcVars

\* Transition engine, step 3: a target reports its outcome, which is
\* merged into the transition record.
MergeOutcomeLastWins(rec, t, o) ==
    [rec EXCEPT !.outcome[t] = o,
                !.order = Append(@, t),
                !.allOk = (o = "succeeded"),
                !.failed = IF o = "succeeded" THEN {} ELSE {t}]

MergeOutcome(rec, t, o) ==
    [rec EXCEPT !.outcome[t] = o,
                !.order = Append(@, t),
                !.allOk = @ /\ (o = "succeeded"),
                !.failed = IF o = "succeeded" THEN @ ELSE @ \cup {t}]

TargetReport(n) ==
    /\ InFlight(n)
    /\ \E t \in Targets, o \in {"succeeded", "failed", "timeout"} :
        /\ trs[n].outcome[t] = "pending"
        /\ trs' = [trs EXCEPT ![n] = MergeOutcome(trs[n], t, o)]
    /\ UNCHANGED <<cfg, rcReq, nonRcVars>>

\* Transition engine, step 4: the state the configuration gets once every
\* target has reported.
AggregateStateAlways(rec, state) == TargetState(rec.action)

AggregateState(rec, state) ==
    IF rec.allOk THEN TargetState(rec.action) ELSE state

Aggregate(n) ==
    /\ InFlight(n)
    /\ cfg.exists
    /\ cfg.tr = n
    /\ \A t \in Targets : trs[n].outcome[t] # "pending"
    /\ cfg' = [cfg EXCEPT !.state = AggregateState(trs[n], @), !.etag = @ + 1]
    /\ trs' = [trs EXCEPT ![n] = Finished(trs[n],
                        IF trs[n].allOk THEN "done" ELSE "failed", cfg'.state)]
    /\ UNCHANGED <<rcReq, nonRcVars>>

InitRcIdle ==
    /\ cfg = NoCfg
    /\ trs = [n \in TrNames |-> NoTr]
    /\ rcReq = [q \in RcReqs |-> IdleRcReq]

NextRc ==
    \/ \E q \in RcReqs :
        \/ RcRequest(q)
        \/ CreateRecoveryConfiguration(q)
        \/ DelRecoveryConfiguration(q)
        \/ EngineValidate(q)
        \/ EngineCreate(q)
    \/ \E n \in TrNames :
        \/ TargetReport(n)
        \/ Aggregate(n)

\* The endpoints alone, the transition engine seen through its callback.
NextEp ==
    \E q \in RcReqs :
        \/ EpRequest(q)
        \/ TransitionCb(q)
        \/ CreateRecoveryConfiguration(q)
        \/ DelRecoveryConfiguration(q)

\* ------------------------------------------------------------------------
\* Fan-out of one transition
\* ------------------------------------------------------------------------

FanTargets == {"cn1", "cn2", "cn3"}
Terminal == {"succeeded", "failed", "timeout"}

\* The concurrency the engine uses when its parameters carry none.
DefaultConcurrency == 2
NoConcurrency == 0

\* updateRecoveryConfiguration: trParams.concurrency is set from
\* req.params.concurrency when the request supplies one (0 stands for a
\* request without the parameter).
TrParamsConcurrencyDropped(supplied) == NoConcurrency

TrParamsConcurrency(supplied) ==
    IF supplied # 0 THEN supplied ELSE NoConcurrency

\* The targets that occupy a slot of the fan-out.
BusyOrFailed(rec) ==
    {t \in FanTargets : rec.outcome[t] \in {"running", "failed", "timeout"}}

Busy(rec) == {t \in FanTargets : rec.outcome[t] = "running"}

NoFan ==
    [state |-> "staged", status |-> "none", action |-> "none", supplied |-> 0,
     concurrency |-> NoConcurrency,
     outcome |-> [t \in FanTargets |-> "pending"]]

\* PUT /recovery-configurations/:uuid with an action the table allows and
\* no transition in flight: updateRecoveryConfiguration builds trParams and
\* calls the engine, which creates the transition record (steps 1 and 2).
FanStart ==
    /\ fan.status # "inflight"
    /\ \E action \in {"activate", "expire", "deactivate"}, supplied \in 0..MaxConcurrency :
        /\ LegalTransition(fan.state, action)
        /\ fan' = [NoFan EXCEPT !.state = fan.state, !.status = "inflight",
                        !.action = action, !.supplied = supplied,
                        !.concurrency = TrParamsConcurrency(supplied)]
    /\ UNCHANGED nonFanVars

\* Step 3: the action of a target is started when a slot is free.
TargetStart(t) ==
    /\ fan.status = "inflight"
    /\ fan.outcome[t] = "pending"
    /\ Cardinality(Busy(fan)) <
            (IF fan.concurrency = NoConcurrency THEN DefaultConcurrency
             ELSE fan.concurrency)
    /\ fan' = [fan EXCEPT !.outcome[t] = "running"]
    /\ UNCHANGED nonFanVars

\* Step 3: a running target succeeds or fails, or its timeout expires; the
\* outcome is written to the transition record.
TargetEnd(t) ==
    /\ fan.status = "inflight"
    /\ fan.outcome[t] = "running"
    /\ \E o \in Terminal : fan' = [fan EXCEPT !.outcome[t] = o]
    /\ UNCHANGED nonFanVars

\* Step 4: every target has its outcome; the configuration gets the state
\* of the action if all succeeded and keeps its state otherwise.
FanAggregate ==
    /\ fan.status = "inflight"
    /\ \A t \in FanTargets : fan.outcome[t] \in Terminal
    /\ LET ok == \A t \in FanTargets : fan.outcome[t] = "succeeded"
       IN  fan' = [fan EXCEPT !.status = IF ok THEN "done" ELSE "failed",
                        !.state = IF ok THEN TargetState(fan.action) ELSE @]
    /\ UNCHANGED nonFanVars

\* A staged configuration without a transition.
InitFan == fan = NoFan

NextFan ==
    \/ FanStart
    \/ \E t \in FanTargets : TargetStart(t)
    \/ \E t \in FanTargets : TargetEnd(t)
    \/ FanAggregate

\* ------------------------------------------------------------------------
\* initBucket (lib/apis/moray.js)
\* ------------------------------------------------------------------------

\* The bucket schema objects of the callers: two for the bucket "a", with
\* different schemas, one of them without a version, and one for "b".
BucketConfs == {"A1", "A2", "B1"}
Prefixes == {"t_"}
BaseName(c) == IF c = "B1" THEN <<"b">> ELSE <<"a">>
NoOptions == [version |-> 0]
\* The options of createBucket and updateBucket: options.version when the
\* schema object has a version.
OptionsOf(c) ==
    IF c # "A2" THEN [version |-> IF c = "B1" THEN 2 ELSE 1] ELSE NoOptions
NoBucket == [schema |-> "none", options |-> NoOptions]

\* Bucket names: a base name after any number of prefixes.
BucketNames ==
    {<<"a">>, <<"b">>}
        \cup {<<p, b>> : p \in Prefixes, b \in {"a", "b"}}
        \cup {<<p, q, b>> : p \in Prefixes, q \in Prefixes, b \in {"a", "b"}}

IdleIb ==
    [conf |-> "none", pc |-> "idle", name |-> <<>>, found |-> FALSE,
     issued |-> FALSE, options |-> NoOptions, err |-> "none"]

\* setTestPrefix
SetTestPrefix(pfx) ==
    /\ BUCKET_PFX # pfx
    /\ BUCKET_PFX' = pfx
    /\ UNCHANGED <<bucketCfg, morayBuckets, ib, nonInitVars>>

\* initBucket up to the call of moray.getBucket: with a prefix set, the
\* name of a schema object seen for the first time is replaced by the
\* prefixed name.  A call starts when the previous one has called back.
InitBucket(c) ==
    /\ ib.pc \in {"idle", "done"}
    /\ LET prefix == BUCKET_PFX # "" /\ ~bucketCfg[c].name_prefixed
           name == IF prefix THEN <<BUCKET_PFX>> \o bucketCfg[c].name
                   ELSE bucketCfg[c].name
       IN  /\ name \in BucketNames
           /\ bucketCfg' = IF prefix
                    THEN [bucketCfg EXCEPT ![c] =
                            [name |-> name, name_prefixed |-> TRUE]]
                    ELSE bucketCfg
           /\ ib' = [IdleIb EXCEPT !.conf = c, !.pc = "get", !.name = name]
    /\ UNCHANGED <<BUCKET_PFX, morayBuckets, nonInitVars>>

\* The callback of moray.getBucket: BucketNotFoundError leads to
\* createBucket, with options.version when the schema object has a
\* version; any other error is passed to the callback; without an error
\* the callback is called without arguments.
GetBucketCbAlwaysCreate(call, err) ==
    [call EXCEPT !.pc = "create", !.issued = TRUE,
        !.found = (err = "none"),
        !.options = OptionsOf(call.conf)]

GetBucketCb(call, err) ==
    IF err = "none"
        THEN [call EXCEPT !.pc = "done", !.found = TRUE]
    ELSE IF err = "BucketNotFoundError"
        THEN [call EXCEPT !.pc = "create", !.issued = TRUE,
                !.options = OptionsOf(call.conf)]
    ELSE [call EXCEPT !.pc = "done", !.err = err]

GetBucket ==
    /\ ib.pc = "get"
    /\ \E fault \in BOOLEAN :
        LET err == IF fault THEN "InternalError"
                   ELSE IF morayBuckets[ib.name] = NoBucket
                        THEN "BucketNotFoundError"
                   ELSE "none"
        IN  ib' = GetBucketCb(ib, err)
    /\ UNCHANGED <<BUCKET_PFX, bucketCfg, morayBuckets, nonInitVars>>

\* moray.createBucket and its callback: the store creates the bucket with
\* the schema and options it is given, and refuses a name that is taken;
\* err2 is passed to the callback.
CreateBucket ==
    /\ ib.pc = "create"
    /\ \E fault \in BOOLEAN :
        LET err2 == IF fault THEN "InternalError"
                    ELSE IF morayBuckets[ib.name] # NoBucket
                        THEN "BucketConflictError"
                    ELSE "none"
        IN  /\ morayBuckets' = IF err2 # "none" THEN morayBuckets
                    ELSE [morayBuckets EXCEPT ![ib.name] =
                            [schema |-> (IF ib.conf = "A2" THEN "s2" ELSE "s1"),
                             options |-> ib.options]]
            /\ ib' = [ib EXCEPT !.pc = "done", !.err = err2]
    /\ UNCHANGED <<BUCKET_PFX, bucketCfg, nonInitVars>>

InitInitIdle ==
    /\ BUCKET_PFX = ""
    /\ bucketCfg = [c \in BucketConfs |->
                        [name |-> BaseName(c), name_prefixed |-> FALSE]]
    /\ morayBuckets = [n \in BucketNames |-> NoBucket]
    /\ ib = IdleIb

NextInit ==
    \/ \E pfx \in Prefixes \cup {""} : SetTestPrefix(pfx)
    \/ \E c \in BucketConfs : InitBucket(c)
    \/ GetBucket
    \/ CreateBucket

\* ------------------------------------------------------------------------
\* initBucket, concurrent calls (lib/apis/moray.js)
\* ------------------------------------------------------------------------

\* The callers of initBucket: processes that start on the same store, or
\* models of one process initialized in parallel.
Callers == 1..MaxCallers

\* What is left of the variables once the buckets and the calls are taken
\* out.
nonBucketVars ==
    <<storeVars, pivVars, rcVars, fanVars, arrVars, listVars, testVars>>

\* moray.createBucket: the store creates the bucket with the schema and
\* options it is given, and refuses a name that is taken.
MorayCreateBucket(buckets, name, c, options) ==
    IF buckets[name] # NoBucket
        THEN [err |-> "BucketConflictError", buckets |-> buckets]
    ELSE [err |-> "none",
          buckets |-> [buckets EXCEPT ![name] =
                        [schema |-> (IF c = "A2" THEN "s2" ELSE "s1"),
                         options |-> options]]]

\* initBucket up to the call of moray.getBucket, as InitBucket, by caller i.
ConInitBucket(i) ==
    /\ calls[i].pc = "idle"
    /\ \E c \in BucketConfs :
        LET prefix == BUCKET_PFX # "" /\ ~bucketCfg[c].name_prefixed
            name == IF prefix THEN <<BUCKET_PFX>> \o bucketCfg[c].name
                    ELSE bucketCfg[c].name
        IN  /\ name \in BucketNames
            /\ bucketCfg' = IF prefix
                    THEN [bucketCfg EXCEPT ![c] =
                            [name |-> name, name_prefixed |-> TRUE]]
                    ELSE bucketCfg
            /\ calls' = [calls EXCEPT ![i] =
                    [IdleIb EXCEPT !.conf = c, !.pc = "get", !.name = name]]
    /\ UNCHANGED <<BUCKET_PFX, morayBuckets, ib, nonBucketVars>>

\* The answer of moray.getBucket reaches caller i.
ConGetBucket(i) ==
    /\ calls[i].pc = "get"
    /\ \E fault \in BOOLEAN :
        LET err == IF fault THEN "InternalError"
                   ELSE IF morayBuckets[calls[i].name] = NoBucket
                        THEN "BucketNotFoundError"
                   ELSE "none"
        IN  calls' = [calls EXCEPT ![i] = GetBucketCb(calls[i], err)]
    /\ UNCHANGED <<BUCKET_PFX, bucketCfg, morayBuckets, ib, nonBucketVars>>

\* The createBucket of caller i reaches the store, and its callback runs:
\* err2 is passed to the callback of initBucket.
ConCreateBucket(i) ==
    /\ calls[i].pc = "create"
    /\ \E fault \in BOOLEAN :
        LET res == MorayCreateBucket(morayBuckets, calls[i].name,
                        calls[i].conf, calls[i].options)
            err2 == IF fault THEN "InternalError" ELSE res.err
        IN  /\ morayBuckets' = IF err2 # "none" THEN morayBuckets
                               ELSE res.buckets
            /\ calls' = [calls EXCEPT ![i].pc = "done", ![i].err = err2]
    /\ UNCHANGED <<BUCKET_PFX, bucketCfg, ib, nonBucketVars>>

InitConIdle == calls = [i \in Callers |-> IdleIb]

NextCon ==
    \E i \in Callers :
        \/ ConInitBucket(i)
        \/ ConGetBucket(i)
        \/ ConCreateBucket(i)

\* ------------------------------------------------------------------------
\* Test server helpers (test/lib/common.js)
\* ------------------------------------------------------------------------

\* The calls of createTestServer and of closeServer a test run makes; the
\* server a createTestServer call constructs is named after the call.
TestCalls == 1..MaxTestCalls
NoServer == 0

\* createTestServer(opts, callback): throws when SERVER is set; with
\* opts.moray the server is constructed at once, otherwise setupMoray is
\* called and the server is constructed in its callback.
CreateTestServer(c) ==
    /\ creates[c].pc = "idle"
    /\ \E withMoray \in BOOLEAN :
        IF SERVER # NoServer
            THEN /\ creates' = [creates EXCEPT ![c].pc = "threw"]
                 /\ UNCHANGED <<SERVER, servers>>
        ELSE IF withMoray
            THEN /\ creates' = [creates EXCEPT ![c].pc = "starting"]
                 /\ SERVER' = c
                 /\ servers' = servers \cup {c}
        ELSE /\ creates' = [creates EXCEPT ![c].pc = "setup"]
             /\ UNCHANGED <<SERVER, servers>>
    /\ UNCHANGED <<closes, nonTestVars>>

\* startWithMoray as the callback of setupMoray: an error goes to the
\* callback; otherwise the server is constructed, assigned to SERVER and
\* started.
StartWithMoray(c) ==
    /\ creates[c].pc = "setup"
    /\ \E err \in BOOLEAN :
        IF err
            THEN /\ creates' = [creates EXCEPT ![c].pc = "failed"]
                 /\ UNCHANGED <<SERVER, servers>>
        ELSE /\ creates' = [creates EXCEPT ![c].pc = "starting"]
             /\ SERVER' = c
             /\ servers' = servers \cup {c}
    /\ UNCHANGED <<closes, nonTestVars>>

\* _afterConnect, on the server's 'initialized' event: the callback gets
\* the global SERVER; SERVER.info() throws when SERVER is null by then.
AfterConnect(c) ==
    /\ creates[c].pc = "starting"
    /\ creates' = [creates EXCEPT ![c] =
            IF SERVER = NoServer THEN [pc |-> "TypeError", res |-> NoServer]
            ELSE [pc |-> "done", res |-> SERVER]]
    /\ UNCHANGED <<SERVER, servers, closes, nonTestVars>>

\* closeServer(t): without a server the test ends; otherwise SERVER.stop
\* is called.
CloseServer(k) ==
    /\ closes[k].pc = "idle"
    /\ closes' = [closes EXCEPT ![k] =
            IF SERVER = NoServer THEN [pc |-> "done", target |-> NoServer]
            ELSE [pc |-> "stopping", target |-> SERVER]]
    /\ UNCHANGED <<SERVER, servers, creates, nonTestVars>>

\* The callback of SERVER.stop: SERVER = null, whatever it holds by then
\* and whether or not the stop failed.
StopCb(k) ==
    /\ closes[k].pc = "stopping"
    /\ \E err \in BOOLEAN :
        /\ SERVER' = NoServer
        /\ servers' = IF err THEN servers ELSE servers \ {closes[k].target}
        /\ closes' = [closes EXCEPT ![k].pc = "done"]
    /\ UNCHANGED <<creates, nonTestVars>>

InitTestIdle ==
    /\ SERVER = NoServer
    /\ servers = {}
    /\ creates = [c \in TestCalls |-> [pc |-> "idle", res |-> NoServer]]
    /\ closes = [k \in TestCalls |-> [pc |-> "idle", target |-> NoServer]]

NextTest ==
    \E c \in TestCalls :
        \/ CreateTestServer(c)
        \/ StartWithMoray(c)
        \/ AfterConnect(c)
        \/ CloseServer(c)
        \/ StopCb(c)

\* ------------------------------------------------------------------------
\* arrayToVal / valToArray (lib/apis/moray.js)
\* ------------------------------------------------------------------------

\* Strings are sequences of characters; "," is the delimiter.
Strs == UNION {[1..n -> {"a", ","}] : n \in 0..MaxStr}

\* The value of params[key].
AbsentField == [kind |-> "absent", str |-> <<>>, arr |-> <<>>]

\* arr.join(',')
RECURSIVE Join(_)
Join(arr) ==
    IF arr = <<>> THEN <<>>
    ELSE IF Len(arr) = 1 THEN arr[1]
    ELSE arr[1] \o <<",">> \o Join(Tail(arr))

\* arrayToVal: ',' + arr.join(',') + ','
ArrayToVal(arr) == <<",">> \o Join(arr) \o <<",">>

\* str.split(','): the pieces between the delimiters.
RECURSIVE SplitFrom(_, _)
SplitFrom(s, piece) ==
    IF s = <<>> THEN <<piece>>
    ELSE IF Head(s) = "," THEN <<piece>> \o SplitFrom(Tail(s), <<>>)
    ELSE SplitFrom(Tail(s), Append(piece, Head(s)))

\* .replace(/^,/, '') and .replace(/,$/, '')
StripLeadingNone(s) == s

StripLeading(s) == IF s # <<>> /\ Head(s) = "," THEN Tail(s) ELSE s
StripTrailing(s) ==
    IF s # <<>> /\ s[Len(s)] = "," THEN SubSeq(s, 1, Len(s) - 1) ELSE s

\* arrayify of a string: '' is the empty array, anything else is split.
Arrayify(s) == IF s = <<>> THEN <<>> ELSE SplitFrom(s, <<>>)

\* valToArray(params, key), as the new value of params[key]: a key that is
\* absent or holds an object is left alone, ',,' deletes the key, any
\* other string is stripped of one leading and one trailing delimiter and
\* split.
ValToArrayKeepEmpty(f) ==
    IF f.kind # "string" THEN f
    ELSE [kind |-> "object", str |-> <<>>,
          arr |-> Arrayify(StripTrailing(StripLeading(f.str)))]

ValToArray(f) ==
    IF f.kind # "string" THEN f
    ELSE IF f.str = <<",", ",">> THEN AbsentField
    ELSE [kind |-> "object", str |-> <<>>,
          arr |-> Arrayify(StripTrailing(StripLeading(f.str)))]

\* A model instance writes its array to the indexed field.
Encode ==
    /\ stage = "new"
    /\ field' = [kind |-> "string", str |-> ArrayToVal(arrIn), arr |-> <<>>]
    /\ stage' = "encoded"
    /\ UNCHANGED <<arrIn, nonArrVars>>

\* A record comes back from the store with any string in the field.
Raw ==
    /\ stage = "new"
    /\ \E s \in Strs : field' = [kind |-> "string", str |-> s, arr |-> <<>>]
    /\ stage' = "raw"
    /\ UNCHANGED <<arrIn, nonArrVars>>

\* valToArray(params, key)
Decode ==
    /\ stage \in {"new", "encoded", "raw", "decoded", "rawdecoded"}
    /\ field' = ValToArray(field)
    /\ stage' = IF stage \in {"encoded", "decoded"} THEN "decoded"
                ELSE IF stage \in {"raw", "rawdecoded"} THEN "rawdecoded"
                ELSE "new"
    /\ UNCHANGED <<arrIn, nonArrVars>>

InitArrIdle ==
    /\ arrIn = <<>>
    /\ field = AbsentField
    /\ stage = "idle"

NextArr == Encode \/ Raw \/ Decode

\* ------------------------------------------------------------------------
\* listObjs / ldapFilter (lib/apis/moray.js)
\* ------------------------------------------------------------------------

\* The values of a filter parameter object.  Strings are sequences of
\* characters; a string value is kept as the pieces between its commas (one
\* piece: no comma in it), a list as its elements.
FilterValues ==
    {[kind |-> "string", parts |-> <<<<"x">>>>],
     [kind |-> "string", parts |-> <<<<"!", "x">>>>],
     [kind |-> "string", parts |-> <<<<"x">>, <<"!", "y">>>>],
     [kind |-> "object", parts |-> <<<<"!", "x">>, <<"y">>>>],
     [kind |-> "object", parts |-> <<<<"7">>>>],
     [kind |-> "boolean", parts |-> <<<<"true">>>>],
     [kind |-> "boolean", parts |-> <<<<"false">>>>],
     [kind |-> "number", parts |-> <<<<"7">>>>]}

\* A filter parameter object: its keys, in the order of Object.keys, with
\* their values.
FilterObjs ==
    {o \in UNION {[1..n -> [key : {"a", "b", "n", "filter"},
                            val : FilterValues]] : n \in 0..MaxKeys} :
        \A i, j \in 1..Len(o) : i # j => o[i].key # o[j].key}

HasKey(o, k) == \E i \in 1..Len(o) : o[i].key = k
ValueOf(o, k) == o[CHOOSE i \in 1..Len(o) : o[i].key = k].val

\* bucket.schema.index.hasOwnProperty(i)
IndexedAlways(k, index) == TRUE

Indexed(k, index) == k \in index

\* What one key of the object adds to filterBy; a filter is the sequence of
\* its pieces, '(&', '(|', ')', '(k=v)' and '(!(k=v))'.  A string with
\* commas is split into a list first; an element of a list is negated when
\* it starts with '!' (a number never does).
KeyPieces(k, v, index) ==
    IF ~Indexed(k, index) THEN <<>>
    ELSE IF v.kind = "object" \/ (v.kind = "string" /\ Len(v.parts) > 1)
        THEN <<<<"(|">>>>
                \o [j \in 1..Len(v.parts) |->
                        IF Head(v.parts[j]) = "!"
                            THEN <<"!=", k, Tail(v.parts[j])>>
                            ELSE <<"=", k, v.parts[j]>>]
                \o <<<<")">>>>
    ELSE IF v.kind = "boolean"
        THEN (IF v.parts[1] = <<"true">>
                THEN <<<<"=", k, <<"true">>>>>>
                ELSE <<<<"!=", k, <<"true">>>>>>)
    ELSE <<<<"=", k, v.parts[1]>>>>

RECURSIVE FilterBy(_, _)
FilterBy(o, index) ==
    IF o = <<>> THEN <<>>
    ELSE KeyPieces(o[1].key, o[1].val, index) \o FilterBy(Tail(o), index)

\* ldapFilter(inObj, bucket) for an object inObj: '' for an empty object,
\* the value of its property 'filter' if it has one, the filter built from
\* its keys otherwise.
LdapFilter(o, index) ==
    IF o = <<>> THEN <<>>
    ELSE IF HasKey(o, "filter") THEN <<<<"raw", ValueOf(o, "filter")>>>>
    ELSE LET filterBy == FilterBy(o, index)
         IN  IF Len(filterBy) > 1
                THEN <<<<"(&">>>> \o filterBy \o <<<<")">>>>
                ELSE filterBy

\* constants.DEFAULT_LIMIT and constants.DEFAULT_OFFSET
DEFAULT_LIMIT == 1000
DEFAULT_OFFSET == 0

\* if (opts.limit) ... else ..., opts.limit being undefined or a number.
OrDefaultStrict(x, d) == IF x.given THEN x.n ELSE d

OrDefault(x, d) == IF x.given /\ x.n # 0 THEN x.n ELSE d

\* listObjs up to the call of moray.findObjects: opts.defaultFilter takes
\* the place of a filter that is '' or false, and the strings with commas
\* that ldapFilter went through have become lists in opts.filter.
ListObjs ==
    /\ listPc = "called"
    /\ LET o == listIn.filter
           f == LdapFilter(o, listIn.index)
       IN  /\ listSent' =
                [filter |->
                    IF f = <<>> \/ f = <<<<"raw", [kind |-> "boolean",
                                    parts |-> <<<<"false">>>>]>>>>
                        THEN <<<<"default">>>> ELSE f,
                 limit |-> OrDefault(listIn.limit, DEFAULT_LIMIT),
                 offset |-> OrDefault(listIn.offset, DEFAULT_OFFSET)]
           /\ listIn' = [listIn EXCEPT !.filter =
                IF o = <<>> \/ HasKey(o, "filter") THEN o
                ELSE [i \in 1..Len(o) |->
                        IF /\ Indexed(o[i].key, listIn.index)
                           /\ o[i].val.kind = "string"
                           /\ Len(o[i].val.parts) > 1
                            THEN [o[i] EXCEPT !.val.kind = "object"]
                            ELSE o[i]]]
    /\ listPc' = "sent"
    /\ UNCHANGED nonListVars

\* The request ends, or fails: the callback gets the results or the error.
ListEnd ==
    /\ listPc = "sent"
    /\ \E err \in BOOLEAN : listPc' = IF err THEN "error" ELSE "end"
    /\ UNCHANGED <<listIn, listSent, nonListVars>>

InitListIdle ==
    /\ listIn = [filter |-> <<>>, index |-> {"a"},
                 limit |-> [given |-> FALSE, n |-> 0],
                 offset |-> [given |-> FALSE, n |-> 0]]
    /\ listSent = [filter |-> <<>>, limit |-> 0, offset |-> 0]
    /\ listPc = "idle"

NextList == ListObjs \/ ListEnd

InitStore ==
    /\ objs = [k \in Keys |-> Absent]
    /\ nextTag = 1
    /\ wObj = [w \in Writers |-> [key |-> "k1", val |-> EmptyValue, etag |-> Undef]]
    /\ ev = NoEvent
    /\ okBy = [t \in Tags |-> 0]
    /\ koBy = {}
    /\ clobbered = {}

NextStore ==
    \E w \in Writers :
        \/ NewObj(w)
        \/ GetObj(w)
        \/ PutObj(w)
        \/ UpdateObj(w)
        \/ DelObj(w)

\* The same with callers that also list the bucket.
NextStoreList ==
    \E w \in Writers :
        \/ NewObj(w)
        \/ GetObj(w)
        \/ ListRecords(w)
        \/ PutObj(w)
        \/ UpdateObj(w)
        \/ DelObj(w)

\* The same with a store that may fail a get or a delete.
NextStoreErr ==
    \E w \in Writers :
        \/ NewObj(w)
        \/ GetObj(w)
        \/ GetObjFault(w)
        \/ PutObj(w)
        \/ UpdateObj(w)
        \/ DelObj(w)
        \/ DelObjFault(w)

vars ==
    <<storeVars, pivVars, rcVars, fanVars, initVars, arrVars,
      listVars, conVars, testVars>>

\* The store wrappers and their callers, the other components idle.
InitStoreSpec ==
    /\ InitStore /\ InitPivIdle /\ InitRcIdle /\ InitFan /\ InitInitIdle
    /\ InitArrIdle /\ InitListIdle
    /\ InitConIdle
    /\ InitTestIdle

SpecStore == InitStoreSpec /\ [][NextStore]_vars

SpecStoreList == InitStoreSpec /\ [][NextStoreList]_vars

\* The same callers with a store that may fail, started on a bucket that
\* holds one record, stored by a put before the callers started.
InitStoreErrSpec ==
    /\ objs = [k \in Keys |->
                [present |-> TRUE, val |-> EmptyValue, etag |-> Tag(1)]]
    /\ nextTag = 2
    /\ wObj = [w \in Writers |->
                [key |-> "k1", val |-> EmptyValue, etag |-> Undef]]
    /\ ev = NoEvent
    /\ okBy = [t \in Tags |-> 0]
    /\ koBy = {}
    /\ clobbered = {}
    /\ InitPivIdle /\ InitRcIdle /\ InitFan /\ InitInitIdle /\ InitArrIdle
    /\ InitListIdle
    /\ InitConIdle
    /\ InitTestIdle

SpecStoreErr == InitStoreErrSpec /\ [][NextStoreErr]_vars

\* The recovery configuration endpoints and the transition engine, the other
\* components idle: a configuration not created yet, or one left in some
\* state by earlier, finished transitions.
InitRcSpec ==
    /\ cfg \in {NoCfg} \cup
            {[NoCfg EXCEPT !.exists = TRUE, !.state = s, !.etag = 1] :
                s \in {"staged", "active"}}
    /\ trs = [n \in TrNames |-> NoTr]
    /\ rcReq = [q \in RcReqs |-> IdleRcReq]
    /\ InitStore /\ InitPivIdle /\ InitFan /\ InitInitIdle /\ InitArrIdle
    /\ InitListIdle
    /\ InitConIdle
    /\ InitTestIdle

SpecRC == InitRcSpec /\ [][NextRc]_vars

\* The pivtokens endpoints, the other components idle.  The server starts
\* on the tokens enrolled before.
InitPivSpec ==
    /\ live = [g \in Guids |-> [guid |-> g, cn_uuid |-> EnrolledOn(g)]]
    /\ hist = [t \in Tokens |-> 0]
    /\ req = [r \in Reqs |-> IdleReq]
    /\ InitStore /\ InitRcIdle /\ InitFan /\ InitInitIdle /\ InitArrIdle
    /\ InitListIdle
    /\ InitConIdle
    /\ InitTestIdle

SpecPiv == InitPivSpec /\ [][NextPiv]_vars

\* All the pivtokens routes, the other components idle.  The server starts
\* with one token enrolled.
InitTokSpec ==
    /\ live = [g \in Guids |->
                IF g = "G1" THEN [guid |-> g, cn_uuid |-> EnrolledOn(g)]
                ELSE NoToken]
    /\ hist = [t \in Tokens |-> 0]
    /\ req = [r \in Reqs |-> IdleReq]
    /\ InitStore /\ InitRcIdle /\ InitFan /\ InitInitIdle /\ InitArrIdle
    /\ InitListIdle
    /\ InitConIdle
    /\ InitTestIdle

SpecTok == InitTokSpec /\ [][NextTok]_vars

\* The fan-out of the transitions of one configuration, the other
\* components idle.
InitFanSpec ==
    InitFan /\ InitStore /\ InitPivIdle /\ InitRcIdle /\ InitInitIdle
        /\ InitArrIdle
        /\ InitListIdle
        /\ InitConIdle
        /\ InitTestIdle

SpecFan == InitFanSpec /\ [][NextFan]_vars

\* initBucket and its callers, the other components idle: a store without
\* buckets, or one where an earlier run of the server created the bucket
\* "a"; no prefix.
InitInitSpec ==
    /\ BUCKET_PFX = ""
    /\ bucketCfg = [c \in BucketConfs |->
                        [name |-> BaseName(c), name_prefixed |-> FALSE]]
    /\ morayBuckets \in
            {[n \in BucketNames |-> NoBucket],
             [n \in BucketNames |->
                IF n = <<"a">>
                    THEN [schema |-> "s1", options |-> [version |-> 1]]
                ELSE NoBucket]}
    /\ ib = IdleIb
    /\ InitStore /\ InitPivIdle /\ InitRcIdle /\ InitFan /\ InitArrIdle
    /\ InitListIdle
    /\ InitConIdle
    /\ InitTestIdle

SpecInit == InitInitSpec /\ [][NextInit]_vars

\* Concurrent initBucket calls on a store without buckets, no prefix set,
\* the other components idle.
InitConSpec ==
    /\ calls = [i \in Callers |-> IdleIb]
    /\ InitInitIdle
    /\ InitStore /\ InitPivIdle /\ InitRcIdle /\ InitFan /\ InitArrIdle
    /\ InitListIdle
    /\ InitTestIdle

SpecCon == InitConSpec /\ [][NextCon]_vars

\* The test helpers that create and close the server, the other components
\* idle.
InitTestSpec ==
    /\ SERVER = NoServer
    /\ servers = {}
    /\ creates = [c \in TestCalls |-> [pc |-> "idle", res |-> NoServer]]
    /\ closes = [k \in TestCalls |-> [pc |-> "idle", target |-> NoServer]]
    /\ InitStore /\ InitPivIdle /\ InitRcIdle /\ InitFan /\ InitInitIdle
    /\ InitArrIdle /\ InitListIdle /\ InitConIdle

SpecTest == InitTestSpec /\ [][NextTest]_vars

\* arrayToVal and valToArray, the other components idle.
InitArrSpec ==
    /\ arrIn \in UNION {[1..n -> Strs] : n \in 0..MaxArr}
    /\ field = AbsentField
    /\ stage = "new"
    /\ InitStore /\ InitPivIdle /\ InitRcIdle /\ InitFan /\ InitInitIdle
    /\ InitListIdle
    /\ InitConIdle
    /\ InitTestIdle

SpecArr == InitArrSpec /\ [][NextArr]_vars

\* The recovery configuration endpoints, the transition engine seen through
\* its callback.
SpecEp == InitRcSpec /\ [][NextEp]_vars

\* The same, every handler and callback that can run eventually running.
SpecEpLive ==
    /\ SpecEp
    /\ \A q \in RcReqs :
        /\ WF_vars(TransitionCb(q))
        /\ WF_vars(CreateRecoveryConfiguration(q))
        /\ WF_vars(DelRecoveryConfiguration(q))

\* listObjs and ldapFilter, the other components idle.
InitListSpec ==
    /\ listIn \in
            [filter : FilterObjs, index : {{"a"}, {"a", "b"}},
             limit : {[given |-> g, n |-> n] :
                        g \in BOOLEAN, n \in 0..MaxLimit},
             offset : {[given |-> g, n |-> n] :
                        g \in BOOLEAN, n \in 0..MaxLimit}]
    /\ ~listIn.limit.given => listIn.limit.n = 0
    /\ ~listIn.offset.given => listIn.offset.n = 0
    /\ listSent = [filter |-> <<>>, limit |-> 0, offset |-> 0]
    /\ listPc = "called"
    /\ InitStore /\ InitPivIdle /\ InitRcIdle /\ InitFan
    /\ InitInitIdle /\ InitArrIdle
    /\ InitConIdle
    /\ InitTestIdle

SpecList == InitListSpec /\ [][NextList]_vars

\* The same under the engine's scheduling: a pending target is started
\* once a slot is free, the action of a running target ends (at the latest
\* when its timeout expires), and the outcomes are aggregated once all
\* are in.
SpecFanLive ==
    /\ InitFanSpec
    /\ [][NextFan]_vars
    /\ WF_vars(\E t \in FanTargets : TargetStart(t))
    /\ \A t \in FanTargets : WF_vars(TargetEnd(t))
    /\ WF_vars(FanAggregate)

\* ------------------------------------------------------------------------
\* Store access layer, with listObjs: properties (SpecStoreList)
\* ------------------------------------------------------------------------

\* The object of caller w carries the tag the store holds for its key.
HoldsStoredTag(w) ==
    /\ objs[wObj[w].key].present
    /\ wObj[w].etag \in Tags
    /\ wObj[w].etag = objs[wObj[w].key].etag

\* C33: an instance returned by listObjs carries the tag (and the value)
\* of the stored record it was built from; after a successful putObj the
\* object carries the tag the store holds for its key; hence a putObj of a
\* caller that holds the stored tag is accepted and leaves the caller with
\* the stored tag again, and a putObj that follows a successful putObj of
\* the same caller, with no call of another caller in between, never ends
\* in a version conflict.
C33_EtagFollowsStore ==
    /\ [](\A w \in Writers :
            /\ (/\ ev.op = "listObjs" /\ ev.w = w /\ ev.err = NoError
                /\ objs[ev.key].present)
               => (HoldsStoredTag(w) /\ wObj[w].val = objs[ev.key].val)
            /\ (ev.op = "putObj" /\ ev.w = w /\ ev.err = NoError)
               => (HoldsStoredTag(w) /\ wObj[w].key = ev.key))
    /\ [][\A w \in Writers :
            (ev'.op = "putObj" /\ ev'.w = w)
            => (/\ HoldsStoredTag(w)
                    => (ev'.err = NoError /\ HoldsStoredTag(w)'
                        /\ objs'[ev'.key].etag # objs[ev'.key].etag)
                /\ (ev.op = "putObj" /\ ev.w = w /\ ev.err = NoError)
                    => ev'.err = NoError)]_vars

\* A caller put its object twice in a row without reading it in between,
\* the second put presenting the tag the first one brought, and both were
\* accepted; another caller then listed the bucket and holds an instance
\* with the tag of the second put.
C33_Witness ==
    \E w \in Writers, o \in Writers :
        /\ w # o
        /\ ev.op = "listObjs" /\ ev.w = o /\ ev.err = NoError
        /\ nextTag = 3 /\ okBy[Tag(1)] = 1
        /\ objs[ev.key].etag = Tag(2)
        /\ wObj[w].etag = Tag(2) /\ wObj[o].etag = Tag(2)
        /\ koBy = {} /\ clobbered = {}

\* ------------------------------------------------------------------------
\* PIVToken endpoints: properties
\* ------------------------------------------------------------------------

\* C8: a request issues the delete of the live record, and has removed it,
\* only once it has written the history record of the token it loaded, and
\* that record is still there; this holds wherever the request stands,
\* also after a crash.
C8_ArchiveBeforeDelete ==
    \A r \in Reqs :
        (req[r].removed \/ req[r].pc \in {"del", "create"})
        => (/\ req[r].archived
            /\ (\E t \in Tokens : t.guid = req[r].guid /\ hist[t] > 0)
            /\ req[r].rawToken # NoToken => hist[req[r].rawToken] > 0)

\* A recover request crashed after it removed the live record.
C8_Witness ==
    \E r \in Reqs :
        /\ req[r].pc = "crashed" /\ req[r].removed
        /\ live[req[r].guid] = NoToken

\* C9: when the history create fails the request is answered with that
\* error, and it has neither issued the delete nor removed anything; when
\* the delete fails the request is answered with the delete's error and
\* the history record it wrote is still there.
C9_ArchiveDeleteErrors ==
    \A r \in Reqs :
        /\ req[r].failed = "history"
            => (/\ req[r].pc = "done" /\ req[r].resp = "HistoryError"
                /\ ~req[r].archived /\ ~req[r].removed)
        /\ req[r].failed = "del"
            => (/\ req[r].pc = "done"
                /\ req[r].resp \in {"DelError", "ResourceNotFoundError"}
                /\ req[r].archived /\ ~req[r].removed
                /\ hist[req[r].rawToken] > 0)

\* One request met a failing history create and the token is still live;
\* another met a failing delete after it archived.
C9_Witness ==
    \E r1, r2 \in Reqs :
        /\ req[r1].failed = "history" /\ live[req[r1].guid] = req[r1].rawToken
        /\ req[r2].failed = "del" /\ req[r2].resp = "DelError"

\* C10: a history record that exists already never makes a request fail;
\* a delete request that loaded the token, passed authentication and met
\* no failing store call is answered 204; and when a request is answered
\* 204 the live record of its guid is absent.
C10_RetryCompletes ==
    /\ [](\A r \in Reqs :
            /\ req[r].resp # "DuplicateError"
            /\ (/\ req[r].route = "deltoken" /\ req[r].pc = "done"
                /\ req[r].rawToken # NoToken /\ req[r].authed
                /\ req[r].failed = "none")
               => (req[r].resp = "204" /\ req[r].archived /\ req[r].removed))
    /\ [][\A r \in Reqs :
            (req'[r].resp = "204" /\ req[r].resp # "204")
            => live'[req'[r].guid] = NoToken]_vars

\* A delete crashed between its history create and its delete; a later
\* delete of the same guid was answered 204, leaving two history records.
C10_Witness ==
    \E r1, r2 \in Reqs :
        /\ r1 < r2 /\ req[r1].guid = req[r2].guid
        /\ req[r1].pc = "crashed" /\ req[r1].archived /\ ~req[r1].removed
        /\ req[r2].route = "deltoken" /\ req[r2].resp = "204"
        /\ hist[req[r2].rawToken] = 2
        /\ live[req[r2].guid] = NoToken

\* The requests that removed the live record they had loaded as token t.
Removers(t) == {r \in Reqs : req[r].removed /\ req[r].rawToken = t}

\* No server crash and no failing store call so far, and every request that
\* arrived has been answered.
QuietPiv ==
    \A r \in Reqs :
        /\ req[r].pc \in {"idle", "done"}
        /\ req[r].resp \notin
                {"InternalError", "HistoryError", "DelError", "CreateError"}

\* C11: once every request is answered, and no server crashed and no store
\* call failed, the history bucket holds for every token exactly as many
\* records as there were removals of that token: one per token deleted or
\* replaced.
C11_OneHistoryPerRemoval ==
    QuietPiv => \A t \in Tokens : hist[t] = Cardinality(Removers(t))

\* C14: the step that answers a recover request with 201 comes after the
\* request archived the token it loaded and removed it, and leaves a
\* history record of that token, no live record under the old guid (unless
\* the replacement has that guid), the replacement stored under its guid,
\* and the replacement in the body of the response.
C14_RecoverReplaces ==
    [][\A r \in Reqs :
        (/\ req[r].route = "recoverytoken"
         /\ req[r].resp # "201" /\ req'[r].resp = "201")
        => (/\ req[r].archived /\ req[r].removed
            /\ hist'[req[r].rawToken] >= 1
            /\ req[r].token.guid # req[r].guid => live'[req[r].guid] = NoToken
            /\ live'[req[r].token.guid] = req[r].token
            /\ req'[r].body = {SerializePublic(req[r].token)})]_vars

\* The errors mod_pivtoken.create can end with.
CreateErrors == {"CreateError", "UniqueAttributeError"}

\* The step in which the create of recover request r fails.
CreateFails(r) ==
    /\ req[r].route = "recoverytoken" /\ req[r].pc = "create"
    /\ req'[r].failed = "create"

\* What C31 says of that step, but for the live record of the old guid: the
\* request is answered with the create error, it had archived and removed
\* the token it loaded, and the step changes neither bucket.
NoRollback(r) ==
    /\ req'[r].pc = "done" /\ req'[r].resp \in CreateErrors
    /\ req'[r].body = {}
    /\ req[r].archived /\ req[r].removed
    /\ live' = live /\ hist' = hist
    /\ hist'[req[r].rawToken] >= 1

\* At every point of a recover request that loaded a token, that token is
\* in the live bucket or has a record in the history bucket.
OriginalKept ==
    \A r \in Reqs :
        (req[r].route = "recoverytoken" /\ req[r].rawToken # NoToken)
        => (\/ live[req[r].guid] = req[r].rawToken
            \/ hist[req[r].rawToken] >= 1)

\* C31 as stated: when the create of the replacement fails during recover,
\* the request is answered with that error after it archived and removed
\* the old token, nothing is rolled back, the old guid has no live record
\* and has a history record; and at every point of a recover request the
\* original token is in the live bucket or in the history bucket.
C31_FailedRecoverLeavesNoLive ==
    /\ []OriginalKept
    /\ [][\A r \in Reqs :
            CreateFails(r)
            => (NoRollback(r) /\ live'[req[r].guid] = NoToken)]_vars

\* C31, amended: as above, and the old guid has no live record unless
\* another request has stored a token under that guid since the removal.
C31_FailedRecoverKeepsArchive ==
    /\ []OriginalKept
    /\ [][\A r \in Reqs :
            CreateFails(r)
            => (/\ NoRollback(r)
                /\ \/ live'[req[r].guid] = NoToken
                   \/ \E o \in Reqs \ {r} :
                        /\ req[o].stored
                        /\ req[o].token.guid = req[r].guid
                        /\ live'[req[r].guid] = req[o].token)]_vars

\* A recover request was answered with the error of its create; the token
\* it loaded is in the history bucket and not in the live bucket.
C31_Witness ==
    \E r \in Reqs :
        /\ req[r].route = "recoverytoken" /\ req[r].pc = "done"
        /\ req[r].failed = "create" /\ req[r].resp \in CreateErrors
        /\ req[r].archived /\ req[r].removed
        /\ live[req[r].guid] = NoToken
        /\ hist[req[r].rawToken] >= 1

\* ------------------------------------------------------------------------
\* PIVToken endpoints, all routes: properties (SpecTok)
\* ------------------------------------------------------------------------

\* A request that has written nothing to either bucket and waits for no
\* write.
WroteNothing(q) ==
    /\ ~q.archived /\ ~q.removed /\ ~q.stored
    /\ q.pc \notin {"archive", "del", "create"}

\* C12, as stated: every POST /pivtokens for a guid that has a live token
\* is answered with that token, and writes nothing.
C12_EveryCreateReturnsExisting ==
    \A r \in Reqs :
        (/\ req[r].route = "createtoken" /\ req[r].pc = "done"
         /\ req[r].rawToken # NoToken)
        => (/\ req[r].resp = "200"
            /\ req[r].body = {SerializePin(req[r].rawToken)}
            /\ WroteNothing(req[r]))

\* C12, amended: a POST /pivtokens for a guid that has a live token never
\* issues a write; when its signature verifies against that token it is
\* answered 200 with the token as it was loaded, and any two such requests
\* that loaded the same token get the same answer; when its signature does
\* not verify it is refused with an empty body.
C12_SignedCreateReturnsExisting ==
    /\ \A r \in Reqs :
        (req[r].route = "createtoken" /\ req[r].rawToken # NoToken)
        => (/\ WroteNothing(req[r])
            /\ (req[r].pc = "done" /\ req[r].authed) =>
                    (/\ req[r].resp = "200"
                     /\ req[r].body = {SerializePin(req[r].rawToken)})
            /\ (req[r].pc = "done" /\ ~req[r].authed) =>
                    (/\ req[r].failed = "auth"
                     /\ req[r].resp = "ResourceNotFoundError"
                     /\ req[r].body = {}))
    /\ \A r1, r2 \in Reqs :
        (/\ req[r1].route = "createtoken" /\ req[r2].route = "createtoken"
         /\ req[r1].authed /\ req[r2].authed
         /\ req[r1].pc = "done" /\ req[r2].pc = "done"
         /\ req[r1].rawToken = req[r2].rawToken)
        => (req[r1].resp = req[r2].resp /\ req[r1].body = req[r2].body)

\* A token was created by an unsigned POST /pivtokens; the same request,
\* sent again and signed, was answered 200 with the token, which is still
\* the one stored.
C12_Witness ==
    \E r1, r2 \in Reqs :
        /\ r1 < r2
        /\ req[r1].route = "createtoken" /\ req[r1].resp = "201"
        /\ req[r1].stored
        /\ req[r2].route = "createtoken" /\ req[r2].resp = "200"
        /\ req[r2].token = req[r1].token /\ req[r2].authed
        /\ req[r2].rawToken = req[r1].token
        /\ live[req[r2].guid] = req[r1].token
        /\ WroteNothing(req[r2])

LiveTokens == {live[g] : g \in {h \in Guids : live[h] # NoToken}}

LoadedRoutes == {"gettokenpin", "deltoken", "recoverytoken"}

\* C15: on the pin, delete and recover routes a request for which the
\* preload has answered and no token was loaded is finished: it was
\* answered ResourceNotFoundError, or with the store error of the preload,
\* and it has issued no write and will issue none.
C15_NoTokenNoWrite ==
    \A r \in Reqs :
        (/\ req[r].route \in LoadedRoutes
         /\ req[r].pc \notin {"idle", "preload"}
         /\ req[r].rawToken = NoToken)
        => (/\ req[r].pc = "done"
            /\ req[r].resp \in {"ResourceNotFoundError", "InternalError"}
            /\ req[r].body = {}
            /\ WroteNothing(req[r]))

\* A recover request for a guid without a token was answered
\* ResourceNotFoundError and another request, whose preload met a store
\* error, was answered with that error; neither wrote, and the token that
\* is stored is untouched.
C15_Witness ==
    \E r1, r2 \in Reqs :
        /\ req[r1].route = "recoverytoken" /\ req[r1].rawToken = NoToken
        /\ req[r1].resp = "ResourceNotFoundError" /\ WroteNothing(req[r1])
        /\ req[r2].route \in LoadedRoutes /\ req[r2].rawToken = NoToken
        /\ req[r2].resp = "InternalError" /\ WroteNothing(req[r2])
        /\ live = [g \in Guids |-> IF g = "G1" THEN [guid |-> "G1", cn_uuid |-> "cn1"] ELSE NoToken]
        /\ \A t \in Tokens : hist[t] = 0

\* A finished request for a stored token whose signature did not verify,
\* and a finished request whose preload found no token under its guid and
\* which met no store error.
AuthFailed(q) ==
    q.pc = "done" /\ q.rawToken # NoToken /\ ~q.authed /\ q.failed = "auth"

UnknownGuid(q) ==
    /\ q.pc = "done" /\ q.rawToken = NoToken
    /\ q.resp # "InternalError" /\ q.failed = "none"

SameToCaller(q1, q2) == q1.resp = q2.resp /\ q1.body = q2.body

\* C16 as stated: on every route registered with signature authentication,
\* a request that failed authentication against a stored token and a
\* request for a guid without a token were answered alike, and neither
\* wrote to the store.
C16_EveryRouteIndistinguishable ==
    \A r1, r2 \in Reqs :
        (/\ req[r1].route \in AuthenticatedRoutes
         /\ req[r2].route = req[r1].route
         /\ AuthFailed(req[r1]) /\ UnknownGuid(req[r2]))
        => (/\ SameToCaller(req[r1], req[r2])
            /\ WroteNothing(req[r1]) /\ WroteNothing(req[r2]))

\* C16: on the pin, delete and recover routes, a request that failed
\* authentication against a stored token and a request for a guid without
\* a token were answered alike (ResourceNotFoundError, no body), and
\* neither wrote to the store.
C16_LoadedRoutesIndistinguishable ==
    \A r1, r2 \in Reqs :
        (/\ req[r1].route \in LoadedRoutes
         /\ req[r2].route = req[r1].route
         /\ AuthFailed(req[r1]) /\ UnknownGuid(req[r2]))
        => (/\ SameToCaller(req[r1], req[r2])
            /\ req[r1].resp = "ResourceNotFoundError" /\ req[r1].body = {}
            /\ WroteNothing(req[r1]) /\ WroteNothing(req[r2]))

\* A delete request for the stored token G1 failed authentication and a
\* delete request for G2, which has no token, was answered; G1 is still
\* stored and nothing was archived.
C16_Witness ==
    \E r1, r2 \in Reqs :
        /\ req[r1].route = "deltoken" /\ req[r2].route = "deltoken"
        /\ req[r1].guid = "G1" /\ req[r2].guid = "G2"
        /\ AuthFailed(req[r1]) /\ UnknownGuid(req[r2])
        /\ live["G1"] = req[r1].rawToken /\ live["G2"] = NoToken
        /\ \A t \in Tokens : hist[t] = 0

C18_EveryTargetEnds ==
    /\ \A t \in FanTargets :
            (fan.status = "inflight") ~> (fan.outcome[t] \in Terminal)
    /\ (fan.status = "inflight") ~> (fan.status \in {"done", "failed"})
    /\ [](fan.status \in {"done", "failed"}
            => \A t \in FanTargets : fan.outcome[t] \in Terminal)

\* A transition that ran its targets one at a time ended as failed: the
\* first target timed out, the others were attempted after it and
\* succeeded, and the configuration kept its state.
C18_Witness ==
    /\ fan.status = "failed" /\ fan.supplied = 1
    /\ fan.outcome = [t \in FanTargets |->
                        IF t = "cn1" THEN "timeout" ELSE "succeeded"]
    /\ fan.action = "activate" /\ fan.state = "staged"

\* The limit a request asks for.
RequestedLimit(supplied) ==
    IF supplied \in 1..MaxConcurrency THEN supplied ELSE DefaultConcurrency

\* C19: while a transition is in flight the number of targets whose
\* action is running never exceeds the concurrency the request supplied,
\* or the default when the request supplied none.
C19_BoundedFanOut ==
    fan.status = "inflight"
        => Cardinality({t \in FanTargets : fan.outcome[t] = "running"})
                <= RequestedLimit(fan.supplied)

\* A request supplied concurrency 1: one target is running, one has
\* ended and one is waiting for the slot.
C19_Witness ==
    /\ fan.status = "inflight" /\ fan.supplied = 1
    /\ \E t1, t2, t3 \in FanTargets :
        /\ fan.outcome[t1] = "running"
        /\ fan.outcome[t2] \in Terminal
        /\ fan.outcome[t3] = "pending"

\* ------------------------------------------------------------------------
\* initBucket: properties (SpecInit)
\* ------------------------------------------------------------------------

\* What a bucket created for a schema object looks like.
CreatedFor(c) ==
    [schema |-> IF c = "A2" THEN "s2" ELSE "s1",
     options |-> IF c = "A1" THEN [version |-> 1]
                 ELSE IF c = "B1" THEN [version |-> 2]
                 ELSE [version |-> 0]]

\* C20: a call that found its bucket issued no createBucket and called
\* back without an error; createBucket is issued only for a bucket that
\* was not found, and a bucket it creates has the caller's schema, with
\* options.version when the schema object declares a version; an error
\* of getBucket or createBucket is what the callback gets; after a call
\* that called back without an error the bucket exists; and a bucket that
\* exists is never changed by a call, so it keeps the schema of its
\* creation.
C20_InitBucketIdempotent ==
    /\ [](/\ ib.found => ~ib.issued /\ ib.pc = "done" /\ ib.err = "none"
          /\ (ib.pc = "done" /\ ib.err = "none")
                => morayBuckets[ib.name] # NoBucket
          /\ (ib.pc = "done" /\ ib.err = "none" /\ ib.issued)
                => morayBuckets[ib.name] = CreatedFor(ib.conf)
          /\ (ib.pc = "done" /\ ~ib.found /\ ~ib.issued)
                => ib.err = "InternalError")
    /\ [][/\ \A n \in BucketNames :
                morayBuckets[n] # NoBucket => morayBuckets'[n] = morayBuckets[n]
          /\ morayBuckets' # morayBuckets
                => ib.pc = "create" /\ ib'.err = "none"
          /\ (ib.pc = "create" /\ ib'.pc = "done" /\ ib'.err # "none")
                => morayBuckets' = morayBuckets
          /\ (ib.pc = "get" /\ ib'.pc = "create")
                => morayBuckets[ib.name] = NoBucket]_vars

\* The bucket "a" was created by a call with a schema object that has a
\* version, and a later call with another schema for the same bucket,
\* which has no version, found it and called back without an error: the
\* bucket still has the first schema and version.
C20_Witness ==
    /\ ib.conf = "A2" /\ ib.pc = "done" /\ ib.found /\ ib.err = "none"
    /\ ~ib.issued
    /\ BUCKET_PFX = "t_" /\ ib.name = <<"t_", "a">>
    /\ bucketCfg["A1"].name_prefixed
    /\ morayBuckets[ib.name] = [schema |-> "s1", options |-> [version |-> 1]]

\* Two calls for the same bucket have called back, each after its getBucket
\* reported the bucket missing, and the store failed neither of them.
BothSawNotFound(i, j) ==
    /\ i # j
    /\ calls[i].pc = "done" /\ calls[j].pc = "done"
    /\ calls[i].name = calls[j].name
    /\ calls[i].issued /\ calls[j].issued
    /\ calls[i].err # "InternalError" /\ calls[j].err # "InternalError"

\* C32: two initBucket calls for the same absent bucket that both saw
\* BucketNotFoundError before either created the bucket both call back
\* without an error, and the bucket exists afterwards with the schema and
\* version declared by one of them.
C32_ConcurrentInitBothSucceed ==
    \A i, j \in Callers :
        BothSawNotFound(i, j)
        => (/\ calls[i].err = "none" /\ calls[j].err = "none"
            /\ morayBuckets[calls[i].name]
                    \in {CreatedFor(calls[i].conf), CreatedFor(calls[j].conf)})

\* ------------------------------------------------------------------------
\* Test server helpers: properties (SpecTest)
\* ------------------------------------------------------------------------

\* C34: at any time at most one server instance exists; a createTestServer
\* call throws when a server created earlier has not been closed, or when
\* an earlier call is still setting up its backing store; and when a
\* closeServer call completes the server slot is empty.
C34_OneServerAtATime ==
    /\ [](Cardinality(servers) <= 1)
    /\ [][\A c \in TestCalls :
            (/\ creates[c].pc = "idle" /\ creates'[c].pc # "idle"
             /\ \/ servers # {}
                \/ \E o \in TestCalls : creates[o].pc = "setup")
            => creates'[c].pc = "threw"]_vars
    /\ [][\A k \in TestCalls :
            (closes[k].pc # "done" /\ closes'[k].pc = "done")
            => SERVER' = NoServer]_vars

\* ------------------------------------------------------------------------
\* Store access layer: properties
\* ------------------------------------------------------------------------

IsWrite(op) == op \in {"putObj", "updateObj"}

\* C1: a putObj or updateObj call whose object carries an etag (a tag, or
\* null) that is not the one stored under its key gets an error in its
\* callback, and neither the stored record (value and etag) nor the etag of
\* the caller's object changes.
C1_StaleWriteRejected ==
    [][\A w \in Writers :
        (/\ IsWrite(ev'.op) /\ ev'.w = w
         /\ wObj[w].etag # Undef
         /\ wObj[w].etag # objs[wObj[w].key].etag)
        => (/\ ev'.err = "EtagConflictError"
            /\ objs' = objs
            /\ wObj'[w].etag = wObj[w].etag)]_vars

\* A putObj that held the tag of an older version of a live record has
\* been refused.
C1_Witness ==
    /\ ev.op = "putObj" /\ ev.err = "EtagConflictError"
    /\ wObj[ev.w].etag \in Tags
    /\ objs[wObj[ev.w].key].present
    /\ objs[wObj[ev.w].key].etag # wObj[ev.w].etag

\* C2: of all the writes made with the tag of one version, exactly one is
\* accepted: never two, and, unless a call that did not hold that tag
\* replaced the version first, one whenever any was refused.  A refused
\* write finds the version it read replaced, and the record stored by an
\* accepted write is the writer's value under the tag the writer now holds.
C2_ExactlyOneWinner ==
    /\ \A t \in Tags :
        /\ okBy[t] <= 1
        /\ (t \in koBy /\ t \notin clobbered) => okBy[t] = 1
        /\ t \in koBy => \A k \in Keys : objs[k].etag # t
    /\ (IsWrite(ev.op) /\ ev.err = NoError) =>
            objs[wObj[ev.w].key] =
                [present |-> TRUE, val |-> wObj[ev.w].val, etag |-> wObj[ev.w].etag]

\* Two callers read the same version; one write was accepted, the other
\* refused, and nothing else touched the record.
C2_Witness ==
    \E t \in Tags :
        /\ okBy[t] = 1 /\ t \in koBy /\ t \notin clobbered
        /\ IsWrite(ev.op) /\ ev.err = "EtagConflictError"
        /\ wObj[ev.w].etag = t

\* C21: a getObj or delObj call on a key that is absent is answered, unless
\* the store fails otherwise, with a ResourceNotFoundError naming the
\* bucket's desc; every other error of the store reaches the callback as
\* the store gave it; a call that is answered with an error leaves the
\* bucket as it was, and getObj always does; delObj on a key that is
\* present removes the record when no etag is given or the etag given is
\* the stored one, and removes nothing when the etag given is another.
C21_NotFoundAndDelete ==
    [][(ev'.op \in {"getObj", "delObj"}) =>
        LET k == ev'.key
            absent == ~objs[k].present
            matches == ev'.etag = [kind |-> "undefined", n |-> 0]
                            \/ ev'.etag = objs[k].etag
        IN  /\ ev'.err \in {"none", "ResourceNotFoundError",
                            "EtagConflictError", "InternalError"}
            /\ absent => ev'.err \in {"ResourceNotFoundError", "InternalError"}
            /\ ev'.err = "ResourceNotFoundError"
                    => absent /\ ev'.msg = "desc"
            /\ ev'.err \in {"EtagConflictError", "InternalError"}
                    => ev'.msg = "store"
            /\ (ev'.err # "none" \/ ev'.op = "getObj") => objs' = objs
            /\ (ev'.op = "getObj" /\ ev'.err = "none")
                    => wObj'[ev'.w] = [key |-> k, val |-> objs[k].val,
                                        etag |-> objs[k].etag]
            /\ (ev'.op = "delObj" /\ ~absent /\ ev'.err # "InternalError")
                    => IF matches
                        THEN ev'.err = "none" /\ ~objs'[k].present
                        ELSE ev'.err = "EtagConflictError" /\ objs' = objs]_vars

\* A delObj that presented the stored etag removed the record, and the
\* getObj or delObj that followed was answered ResourceNotFoundError with
\* the bucket's desc.
C21_Witness ==
    /\ ev.op \in {"getObj", "delObj"}
    /\ ev.err = "ResourceNotFoundError" /\ ev.msg = "desc"
    /\ ~objs[ev.key].present
    /\ \E w \in Writers : wObj[w].key = ev.key /\ wObj[w].etag \in Tags
    /\ \E t \in Tags : okBy[t] >= 1

\* ------------------------------------------------------------------------
\* arrayToVal / valToArray: properties (SpecArr)
\* ------------------------------------------------------------------------

HasDelimiter(s) == \E i \in 1..Len(s) : s[i] = ","

\* C22 as stated: for every non-empty array, the field that was written
\* with arrayToVal and decoded with valToArray holds the array again.
C22_EveryArrayRoundTrips ==
    (stage = "decoded" /\ arrIn # <<>>)
        => field = [kind |-> "object", str |-> <<>>, arr |-> arrIn]

\* C22: for every non-empty array none of whose strings contains the
\* delimiter, other than the array that holds just the empty string, the
\* field that was written with arrayToVal and decoded with valToArray
\* holds the array again, same elements in the same order.
C22_PlainArrayRoundTrips ==
    (/\ stage = "decoded" /\ arrIn # <<>>
     /\ arrIn # << <<>> >>
     /\ \A i \in 1..Len(arrIn) : ~HasDelimiter(arrIn[i]))
        => field = [kind |-> "object", str |-> <<>>, arr |-> arrIn]

\* An array of two strings, the first of them empty, went through
\* arrayToVal and valToArray and came back.
C22_Witness ==
    /\ stage = "decoded"
    /\ arrIn = << <<>>, <<"a", "a">> >>
    /\ field.kind = "object" /\ field.arr = arrIn

\* C23 as stated: arrayToVal of the empty array is the delimiter-only
\* string, and valToArray leaves a field that holds it holding the empty
\* array.
C23_EmptyBothWays ==
    /\ (stage = "encoded" /\ arrIn = <<>>)
            => field = [kind |-> "string", str |-> <<",", ",">>, arr |-> <<>>]
    /\ (stage = "decoded" /\ arrIn = <<>>)
            => field = [kind |-> "object", str |-> <<>>, arr |-> <<>>]

\* C23: arrayToVal of the empty array is the string of two delimiters, and
\* valToArray deletes a key that holds that string: the field is absent
\* afterwards, whether the string was written by arrayToVal or came from
\* the store.
C23_EmptyIsDeleted ==
    /\ [](stage = "encoded" /\ arrIn = <<>>
            => field = [kind |-> "string", str |-> <<",", ",">>, arr |-> <<>>])
    /\ [][(field.kind = "string" /\ field.str = <<",", ",">>
                /\ stage' \in {"decoded", "rawdecoded"})
            => field' = [kind |-> "absent", str |-> <<>>, arr |-> <<>>]]_vars

\* The empty array was written with arrayToVal and decoded: the key is
\* gone.
C23_Witness ==
    stage = "decoded" /\ arrIn = <<>> /\ field.kind = "absent"

\* ------------------------------------------------------------------------
\* Properties of listObjs and ldapFilter (SpecList)
\* ------------------------------------------------------------------------

\* The conjunction of the constraints of the keys of o that are in index,
\* the default filter of the caller when there is none.  The constraint of
\* a key is '(k=v)' for one value and, for several values, the disjunction
\* of '(k=v)', or '(!(k=v))' for a value written '!v'.
RefFilter(o, index) ==
    LET InIndex(e) == e.key \in index
        Element(k, a) ==
            IF Head(a) = "!" THEN <<"!=", k, Tail(a)>> ELSE <<"=", k, a>>
        Key(k, v) ==
            IF v.kind = "object" \/ Len(v.parts) > 1
                THEN <<<<"(|">>>>
                        \o [i \in 1..Len(v.parts) |-> Element(k, v.parts[i])]
                        \o <<<<")">>>>
            ELSE IF v.kind = "boolean"
                THEN <<<<IF v.parts[1] = <<"true">> THEN "=" ELSE "!=", k,
                         <<"true">>>>>>
            ELSE <<<<"=", k, v.parts[1]>>>>
        RECURSIVE Pieces(_)
        Pieces(es) ==
            IF es = <<>> THEN <<>>
            ELSE Key(es[1].key, es[1].val) \o Pieces(Tail(es))
        p == Pieces(SelectSeq(o, InIndex))
    IN  IF p = <<>> THEN <<<<"default">>>>
        ELSE IF Len(p) > 1 THEN <<<<"(&">>>> \o p \o <<<<")">>>>
        ELSE p

C25_CallerPagingPassed ==
    listPc \in {"sent", "end", "error"} =>
        /\ listSent.limit =
                (IF listIn.limit.given THEN listIn.limit.n ELSE 1000)
        /\ listSent.offset =
                (IF listIn.offset.given THEN listIn.offset.n ELSE 0)

\* C25, amended: the limit and the offset sent to the store are those of
\* the caller whenever the caller gave them and they are not 0; a limit or
\* an offset of 0 is replaced by DEFAULT_LIMIT or DEFAULT_OFFSET, as one
\* that was not given.
C25_NonZeroPagingPassed ==
    listPc \in {"sent", "end", "error"} =>
        /\ listIn.limit.given /\ listIn.limit.n > 0 =>
                listSent.limit = listIn.limit.n
        /\ ~listIn.limit.given \/ listIn.limit.n = 0 =>
                listSent.limit = 1000
        /\ listIn.offset.given /\ listIn.offset.n > 0 =>
                listSent.offset = listIn.offset.n
        /\ ~listIn.offset.given \/ listIn.offset.n = 0 =>
                listSent.offset = 0

\* C25: a call with a limit of 0 and an offset the caller chose has been
\* sent.
C25_Witness ==
    /\ listPc = "sent"
    /\ listIn.limit = [given |-> TRUE, n |-> 0]
    /\ listIn.offset.given /\ listIn.offset.n > 0
    /\ listSent.offset = listIn.offset.n

\* ------------------------------------------------------------------------
\* Properties of the recovery configuration endpoints (SpecEp, SpecRC)
\* ------------------------------------------------------------------------

\* The PUT requests the transition engine has answered.
EngineAnswered ==
    {q \in RcReqs :
        /\ rcReq[q].route = "putrecoveryconfiguration"
        /\ rcReq[q].pc = "done"
        /\ rcReq[q].trErr # "none" \/ rcReq[q].trRes.given}

\* C26, as stated: a PUT with an action on an existing configuration is
\* answered 204 with the Location of the created transition when the engine
\* reports no error, 200 with the failure as body when it reports an error
\* and a result, and with the engine's error when it reports an error and
\* no result.
C26_PutAnswersWithFailureBody ==
    \A q \in EngineAnswered :
        LET r == rcReq[q]
        IN  /\ r.trErr = "none" =>
                    r.resp = "204" /\ r.tr # 0 /\ r.tr = r.trRes.name
            /\ r.trErr # "none" /\ r.trRes.given =>
                    r.resp = "200" /\ r.body = "error"
            /\ r.trErr # "none" /\ ~r.trRes.given => r.resp = r.trErr

\* C26, amended: a PUT with an action on an existing configuration is
\* answered 204 with the Location of the created transition when the engine
\* reports no error; 200 without a body, and with the Location of the
\* transition the result names if it names one, when the engine reports an
\* error and a result; and with the engine's error when it reports an error
\* and no result.
C26_PutAnswers ==
    \A q \in EngineAnswered :
        LET r == rcReq[q]
        IN  /\ r.trErr = "none" =>
                    /\ r.resp = "204" /\ r.body = "none"
                    /\ r.tr # 0 /\ r.tr = r.trRes.name
            /\ r.trErr # "none" /\ r.trRes.given =>
                    r.resp = "200" /\ r.body = "none" /\ r.tr = r.trRes.name
            /\ r.trErr # "none" /\ ~r.trRes.given =>
                    r.resp = r.trErr /\ r.body = "error" /\ r.tr = 0

\* C26: the engine has reported an error together with a result that names
\* a transition, and the request has been answered.
C26_Witness ==
    \E q \in EngineAnswered :
        /\ rcReq[q].trErr # "none"
        /\ rcReq[q].trRes.given
        /\ rcReq[q].trRes.name # 0
        /\ rcReq[q].resp = "200"

\* C27: whenever the transition engine is called, trParams carries the
\* targets when the request gave cn_uuid, the PIVToken when it gave
\* pivtoken, and force and concurrency as the request gave them.
C27_TargetsReachEngine ==
    \A q \in RcReqs :
        rcReq[q].pc = "engine" =>
            /\ rcReq[q].cn_uuid # "none" => "targets" \in rcReq[q].trKeys
            /\ rcReq[q].pivtoken # "none" =>
                    /\ "pivtoken" \in rcReq[q].trKeys
                    /\ rcReq[q].trPivtoken = rcReq[q].pivtoken
            /\ rcReq[q].trForce = rcReq[q].force
            /\ rcReq[q].trConcurrency = rcReq[q].concurrency

\* C29: every watch request that has arrived eventually has a response,
\* 404 or the progress of the transition.
C29_WatchAnswered ==
    \A q \in RcReqs :
        (rcReq[q].route = "watchrecoveryconfiguration") ~>
            (rcReq[q].resp \notin {"none", "next"})

\* C30: a PUT for a configuration that does not exist ends in
\* ResourceNotFoundError and one without an action in
\* MissingParameterError, unless the store fails to read the
\* configuration; the request is then over: the transition engine is not
\* called for it, the configuration and the transition records are as they
\* were, and nothing happens to the request afterwards.
C30_RejectedBeforeEngine ==
    [][\A q \in RcReqs :
        /\ (/\ rcReq[q].pc = "idle"
            /\ rcReq'[q].route = "putrecoveryconfiguration"
            /\ rcReq'[q].resp # "InternalError"
            /\ ~cfg.exists \/ rcReq'[q].action = "none") =>
                /\ rcReq'[q].pc = "done"
                /\ rcReq'[q].resp =
                        (IF ~cfg.exists THEN "ResourceNotFoundError"
                         ELSE "MissingParameterError")
                /\ rcReq'[q].trKeys = {}
                /\ cfg' = cfg
                /\ trs' = trs
        /\ rcReq[q].pc = "done" => rcReq'[q] = rcReq[q]]_vars

\* C30: a PUT without an action for a configuration that exists has been
\* answered.
C30_Witness ==
    \E q \in RcReqs :
        /\ rcReq[q].route = "putrecoveryconfiguration"
        /\ rcReq[q].resp = "MissingParameterError"
        /\ rcReq[q].action = "none"
        /\ cfg.exists

\* ------------------------------------------------------------------------
\* Properties of the recovery configuration transitions (SpecRC)
\* ------------------------------------------------------------------------

\* The edges of the life cycle of a recovery configuration.
Edges ==
    {<<"staged", "active">>, <<"active", "expired">>,
     <<"active", "deactivated">>, <<"expired", "deactivated">>}

ActionTarget ==
    [activate |-> "active", expire |-> "expired", deactivate |-> "deactivated"]

InTable(state, action) ==
    action \in DOMAIN ActionTarget /\ <<state, ActionTarget[action]>> \in Edges

RecordsOf(q) == {n \in TrNames : trs[n].status # "none" /\ trs[n].by = q}

Failing(outcome) == {t \in Targets : outcome[t] \in {"failed", "timeout"}}

C4_IllegalRejected ==
    /\ [](\A n \in TrNames :
            trs[n].status # "none" => InTable(trs[n].from, trs[n].action))
    /\ [](\A q \in RcReqs :
            rcReq[q].resp = "InvalidTransition" => RecordsOf(q) = {})
    /\ [][\A q \in RcReqs :
            (/\ rcReq[q].pc = "engine"
             /\ rcReq'[q] # rcReq[q]
             /\ cfg.exists
             /\ ~InTable(cfg.state, rcReq[q].action))
            => /\ rcReq'[q].pc = "done"
               /\ rcReq'[q].resp = "InvalidTransition"
               /\ cfg' = cfg
               /\ trs' = trs]_vars

\* activate on a deactivated configuration was refused, by a request that
\* set force.
C4_Witness ==
    /\ cfg.state = "deactivated"
    /\ \E q \in RcReqs :
        /\ rcReq[q].resp = "InvalidTransition"
        /\ rcReq[q].action = "activate"
        /\ rcReq[q].force

\* C5: the state of a recovery configuration changes only along the edges
\* staged->active, active->expired, active->deactivated and
\* expired->deactivated, so never once it is deactivated, and only in the
\* step that completes a transition all of whose targets succeeded; a
\* configuration is created staged, and a deleted one stays deleted.
C5_StateOnlyAlongEdges ==
    [][/\ (cfg.exists /\ cfg'.exists /\ cfg'.state # cfg.state) =>
            /\ <<cfg.state, cfg'.state>> \in Edges
            /\ \E n \in TrNames :
                /\ InFlight(n)
                /\ trs'[n].status = "done"
                /\ \A t \in Targets : trs[n].outcome[t] = "succeeded"
                /\ <<cfg.state, cfg'.state>> =
                        <<trs[n].from, ActionTarget[trs[n].action]>>
       /\ (~cfg.exists /\ cfg'.exists) => cfg'.state = "staged"
       /\ cfg.deleted => cfg'.deleted /\ ~cfg'.exists]_vars

\* A configuration went from active over expired to deactivated.
C5_Witness ==
    /\ cfg.state = "deactivated"
    /\ \E n, m \in TrNames :
        /\ trs[n].status = "done" /\ trs[n].from = "active"
        /\ trs[n].result = "expired"
        /\ trs[m].status = "done" /\ trs[m].from = "expired"
        /\ trs[m].result = "deactivated"

\* C6: a transition is aggregated when every target has reported.  If all
\* succeeded, the state of the configuration becomes the target state of
\* the action; if a target failed or timed out, the state stays what it was
\* before the transition and the record is marked failed with exactly the
\* targets that failed or timed out.  While the transition is in flight the
\* state is the one it started from.
C6_Aggregate ==
    /\ [](\A n \in TrNames :
            (InFlight(n) /\ cfg.exists) => cfg.state = trs[n].from)
    /\ [][\A n \in TrNames :
            (InFlight(n) /\ trs'[n].status \in {"done", "failed"}) =>
                LET out == trs[n].outcome
                IN  /\ \A t \in Targets : out[t] # "pending"
                    /\ (Failing(out) = {}) =>
                            /\ cfg'.state = ActionTarget[trs[n].action]
                            /\ trs'[n].status = "done"
                            /\ trs'[n].failed = {}
                    /\ (Failing(out) # {}) =>
                            /\ cfg'.state = trs[n].from
                            /\ cfg'.state = cfg.state
                            /\ trs'[n].status = "failed"
                            /\ trs'[n].failed = Failing(out)]_vars

\* A transition one of whose two targets timed out was marked failed with
\* that target, the configuration still in the state it had.
C6_Witness ==
    \E n \in TrNames :
        /\ trs[n].status = "failed"
        /\ trs[n].failed = {"cn2"}
        /\ trs[n].action = "activate"
        /\ cfg.state = "staged"

\* C7: the merge of the outcomes of the targets into the transition record
\* commutes: for a record in flight and any outcomes of any two targets
\* still to report, both orders of delivery give the same outcomes, the
\* same verdict, the same set of failed targets and the same state of the
\* configuration; and what a record has accumulated depends on the
\* outcomes delivered, not on their order.
C7_MergeCommutes ==
    \A n \in TrNames :
        InFlight(n) =>
            /\ trs[n].failed = Failing(trs[n].outcome)
            /\ trs[n].allOk = (Failing(trs[n].outcome) = {})
            /\ \A t1, t2 \in Targets :
                (/\ t1 # t2
                 /\ trs[n].outcome[t1] = "pending"
                 /\ trs[n].outcome[t2] = "pending") =>
                  \A o1, o2 \in {"succeeded", "failed", "timeout"} :
                    LET a == MergeOutcome(MergeOutcome(trs[n], t1, o1), t2, o2)
                        b == MergeOutcome(MergeOutcome(trs[n], t2, o2), t1, o1)
                    IN  /\ a.outcome = b.outcome
                        /\ a.allOk = b.allOk
                        /\ a.failed = b.failed
                        /\ AggregateState(a, cfg.state) =
                                AggregateState(b, cfg.state)

\* The second target reported its failure before the first reported its
\* success.
C7_Witness ==
    \E n \in TrNames :
        /\ InFlight(n)
        /\ trs[n].order = <<"cn2", "cn1">>
        /\ trs[n].outcome["cn2"] = "failed"
        /\ trs[n].outcome["cn1"] = "succeeded"
        /\ trs[n].failed = {"cn2"}
        /\ ~trs[n].allOk

====
